---- MODULE Spec2Model ----
(***************************************************************************)
(* bsud: the per-drive reconciler (src/src/drive.rs), the cloud volume     *)
(* client and its rate limiter (src/src/bsu.rs), and the LVM / btrfs       *)
(* adapters (src/src/lvm.rs, src/src/fs.rs) as one state machine.          *)
(*                                                                         *)
(* Spec         one drive's worker ticking against the cloud, the host's   *)
(*              LVM and the filesystem; every staircase step is an action. *)
(* OnlineSpec   Spec with the target online, no failing step and nothing   *)
(*              else touching the volumes; the worker keeps running.       *)
(* DetachSpec   bsu_detach_all_from_this_vm on any list of fetched volumes. *)
(* AttachSpec   the link requests of workers in Bsu::multiple_attach, each  *)
(*              device showing up on the host some time after its request. *)
(* PvSpec       the pvcreate / vgcreate / vgextend steps on a host that    *)
(*              also carries volumes and unassigned PVs of other drives.   *)
(* ShrinkSpec   the sizes remove_bsu computes, in f32 as the code does, on  *)
(*              filesystems of about 64 GiB counted in 4096-byte blocks.   *)
(* WaitSpec     one call of Bsu::wait_state or Bsu::wait_states polling a   *)
(*              cloud whose volumes change state and whose requests fail.  *)
(* CreateSpec   Bsu::create_gib request by request: create, tag, wait.     *)
(* ScaleSpec    the sizes create_larger_bsu and create_smaller_bsu ask for, *)
(*              in f32 as the code does.                                   *)
(* ExtendSpec   the steps from lv_extend to fs_extend on any VG, LV and    *)
(*              filesystem sizes.                                          *)
(* FormatSpec   the loop on is_fs_formated, byte by byte of the buffer.    *)
(* ResumeSpec   the pvmove commands of several drives' workers on one host, *)
(*              the daemon being killed and started again at any time.     *)
(* LimiterSpec  several workers going through api_limiter().               *)
(* CallSpec     the cloud requests of several workers, with the limiter's  *)
(*              mutex and the read guard of CLOUD_CONFIG.                  *)
(* RunSpec      Drive::run's loop of one worker against the clock.         *)
(* WorkersSpec  Drives::run's workers and Drives::stop; the steps of a     *)
(*              reconcile are those of Spec, their outcomes left open.     *)
(*                                                                         *)
(* Byte counts are kept in units of 1/BytesPerGib GiB.  Fractions that the *)
(* code computes in f32 (used_perc, the *_perc fields) are compared by     *)
(* exact cross-multiplication of integers.                                 *)
(***************************************************************************)
EXTENDS Integers, Sequences, FiniteSets, TLC

----------------------------------------------------------------------------
(* Bounds of the model *)

\* utils.rs:7 has 1024^3 bytes per GiB; the model counts in coarser units.
BytesPerGib == 2
\* The cloud refuses a creation that would bring the drive's volumes over this.
QuotaGib == 24
\* WaitSpec, CreateSpec: the provider errors one call can meet.
MaxErrs == 2
\* CreateSpec: the requests one create_gib sends are recorded up to this many.
MaxReqs == 4
\* ScaleSpec: the volumes are of up to this many GiB, or of about the largest size.
MaxGib == 100
\* FormatSpec: the buffer of device_seems_formated, in units of 1,000,000 / HeaderLen bytes.
HeaderLen == 5
\* ShrinkSpec: the used blocks go from 2^24 - 1 to 2^24 - 1 + MaxExtra.
MaxExtra == 5
\* Volume ids the cloud hands out (a deleted volume's id is handed out again).
MaxVolumes == 3
\* LVM keeps up to this many units of each PV for its metadata and alignment.
MaxPvOverhead == 1
\* At most this many steps of the worker fail or are stopped in one behaviour.
MaxFaults == 1
\* LimiterSpec: the clock, in ticks of 1/TicksPerSec second, stops here.
MaxTime == 16
TicksPerSec == 2
\* LimiterSpec, WorkersSpec: number of drive workers.
NWorkers == 2
\* WorkersSpec: calls completed after Stop was sent are counted up to this.
MaxSince == 3
\* RunSpec: the clock, in ticks of 1/TicksPerSec second, stops here.
MaxClock == 140

----------------------------------------------------------------------------
(* Program constants *)

\* The unit of ShrinkSpec: statvfs counts in blocks, and a GiB is 2^30 bytes (utils.rs:7).
BlockBytes == 4096
BlocksPerGib == 1073741824 \div BlockBytes

API_LIMITER_S == 3
RECONCILE_COOLDOWN_S == 30
MAX_BSU_SIZE_GIB == 14901

VolIds == 1..MaxVolumes
Workers == 1..NWorkers

\* Option<usize>: {} is None, {n} is Some(n).
None == {}
Some(n) == {n}

\* ConfigFileDrive values the drive is built from (Drive::new).
Configs ==
  { [initial_size_gib |-> 10, max_bsu_count |-> 10, max_total_size_gib |-> None,
     max_used_space_perc |-> 85, min_used_space_perc |-> 40, disk_scale_factor_perc |-> 20],
    [initial_size_gib |-> 10, max_bsu_count |-> 10, max_total_size_gib |-> Some(10),
     max_used_space_perc |-> 85, min_used_space_perc |-> 20, disk_scale_factor_perc |-> 20],
    [initial_size_gib |-> 6, max_bsu_count |-> 2, max_total_size_gib |-> None,
     max_used_space_perc |-> 80, min_used_space_perc |-> 40, disk_scale_factor_perc |-> 20],
    [initial_size_gib |-> 6, max_bsu_count |-> 3, max_total_size_gib |-> Some(16),
     max_used_space_perc |-> 75, min_used_space_perc |-> 40, disk_scale_factor_perc |-> 20],
    [initial_size_gib |-> 6, max_bsu_count |-> 2, max_total_size_gib |-> None,
     max_used_space_perc |-> 40, min_used_space_perc |-> 10, disk_scale_factor_perc |-> 20] }

Targets == {"online", "offline", "delete"}

VARIABLES
  cfg,          \* the drive's configuration fields
  pv_overhead,  \* units LVM keeps of every PV on this host
  target,       \* Drive.target
  pc,           \* where the worker is in reconcile()
  kind,         \* which reconcile the worker runs or ran last
  result,       \* what the last reconcile returned: "none", "Ok", "Err"
  all_bsu,      \* Drive.all_bsu: the last fetched list
  vols,         \* the cloud's volumes tagged with the drive's name
  lvm,          \* the drive's VG and LV
  fs,           \* the filesystem on the LV
  mount_dir,    \* whether mount_path is a directory
  rm,           \* remove_bsu's locals
  hist,         \* what the current tick has done (observation only)
  faults,       \* how many steps have failed or been stopped so far
  links,        \* AttachSpec: the volumes left to link and the requests in flight
  host,         \* ResumeSpec: the pvmove of each drive's VG and the last LVM command
  calc,         \* ShrinkSpec: remove_bsu's size arithmetic, in blocks of 4096 bytes
  poll,         \* WaitSpec: a wait_state / wait_states call and the cloud it polls
  now,          \* LimiterSpec: the clock
  limiter,      \* API_LIMITER: the Instant behind the mutex
  lock,         \* API_LIMITER's mutex: 0 or the worker holding it
  wpc,          \* LimiterSpec: each worker's position
  wake,         \* LimiterSpec: when each sleeping worker may wake
  calls,        \* LimiterSpec: timestamps of the last two cloud calls
  cloud_config, \* CLOUD_CONFIG: the workers holding a read guard of the RwLock
  sup,          \* WorkersSpec: where Drives::stop is, and the senders it has left
  wk            \* WorkersSpec: each drive's worker

driveVars == <<cfg, pv_overhead, target, pc, kind, result, all_bsu, vols, lvm, fs,
               mount_dir, rm, hist, faults, links, host, calc, poll>>
limVars == <<now, limiter, lock, wpc, wake, calls, cloud_config>>
workVars == <<sup, wk>>
vars == <<cfg, pv_overhead, target, pc, kind, result, all_bsu, vols, lvm, fs,
          mount_dir, rm, hist, faults, links, host, calc, poll, now, limiter, lock, wpc, wake, calls,
          cloud_config, sup, wk>>

----------------------------------------------------------------------------
(* utils.rs *)

CeilDiv(a, b) == (a + b - 1) \div b

gib_to_bytes(gib) == gib * BytesPerGib

bytes_to_gib_rounded(bytes) == CeilDiv(bytes, BytesPerGib)

Min2(a, b) == IF a <= b THEN a ELSE b

Max2(a, b) == IF a >= b THEN a ELSE b

SetMin(S) == CHOOSE x \in S : \A y \in S : x <= y

\* The spacing of the f32 values around x, for x from 2^23 up to 2^31 (24 bits of
\* mantissa): 1 below 2^24, then doubling at every power of two.
F32Quantum(x) == SetMin({q \in {1, 2, 4, 8, 16, 32, 64, 128} : x \div q < 16777216})

\* The f32 nearest to n / d, ties going to the even mantissa, for n / d >= 2^23: what
\* `a / b` gives on f32 operands whose exact quotient is n / d.
F32Ratio(n, d) ==
  LET q == F32Quantum(n \div d)
      m == n \div (d * q)
      r == n % (d * q)
      up == 2 * r > d * q \/ (2 * r = d * q /\ m % 2 = 1)
  IN (IF up THEN m + 1 ELSE m) * q

\* `n as f32` for a usize n.
to_f32(n) == F32Ratio(n, 1)

Pow2 == {2 ^ k : k \in 0..30}

\* `perc as f32 / 100.0`, the f32 nearest to perc / 100, for perc >= 1: its mantissa m
\* (2^23 <= m <= 2^24) and the power of two `one` it is counted in, the value being
\* m / one.
F32Percent(perc) ==
  LET one == SetMin({u \in Pow2 : u >= CeilDiv(838860800, perc)})
  IN [m |-> F32Ratio(perc * one, 100), one |-> one]

\* size + size * s (sign 1) or size - size * s (sign -1) on f32 values, s being
\* F32Percent(perc), then .ceil() as usize.  The product and the sum are each rounded
\* to the nearest f32, ties to the even mantissa; the product size * s.m is taken in
\* two halves of 12 bits so that no intermediate value leaves 31 bits.  `as usize`
\* gives 0 for a negative value.
F32ScaledCeil(size_gib, perc, sign) ==
  IF perc = 0 THEN size_gib
  ELSE
    LET s == F32Percent(perc)
        a == size_gib * (s.m \div 4096)
        b == size_gib * (s.m % 4096)
        hi == a + b \div 4096
        lo == b % 4096
        q == SetMin({u \in Pow2 : hi \div u < 4096})
        m == IF q <= 4096 THEN hi * (4096 \div q) + lo \div q ELSE hi \div (q \div 4096)
        r == IF q <= 4096 THEN lo % q ELSE (hi % (q \div 4096)) * 4096 + lo
        up == 2 * r > q \/ (2 * r = q /\ m % 2 = 1)
        product == IF up THEN m + 1 ELSE m
        one == s.one \div q
        exact == size_gib * one + sign * product
        sum == to_f32(exact)
    IN IF exact <= 0 THEN 0
       ELSE sum \div one + (IF sum % one = 0 THEN 0 ELSE 1)

RECURSIVE SortedSeq(_)
SortedSeq(S) == IF S = {} THEN <<>> ELSE <<SetMin(S)>> \o SortedSeq(S \ {SetMin(S)})

RECURSIVE SumOver(_, _)
SumOver(f, S) == IF S = {} THEN 0 ELSE LET x == CHOOSE y \in S : TRUE
                                       IN f[x] + SumOver(f, S \ {x})

----------------------------------------------------------------------------
(* Faulty variants of some operators, used to show that the properties below *)
(* depend on the operators they are about.                                   *)

KeepVol(v, i) == v

NeverReachedMax(list) == FALSE

NoMaxSpace(list) == FALSE

AlwaysHigh(f) == TRUE

AlwaysLow(f) == TRUE

MoveEverything(v) == [i \in DOMAIN v |-> [v[i] EXCEPT !.alloc = FALSE]]

NoSmallest(list) == FALSE

NoPvToInit(list, v) == <<>>

NeverMinusOne(list) == FALSE

ReachedAboveMax(list) == Len(list) > cfg.max_bsu_count

NeverMinimal(list) == FALSE

WholeFsAvailable(f) == f.size

WholeFsIdeal(f) == f.size

AttachedSomewhere(b) == b.vm_id # "none"

DropsStop(r) == [r EXCEPT !.chan = 0]

ExitIsError(status) == IF status = 0 THEN "Ok" ELSE "Err"

AlwaysReachedMax(list) == TRUE

EveryUnassignedPv(list, v) ==
  LET ids == SortedSeq({i \in DOMAIN v : v[i].exists /\ v[i].vm = "this" /\ v[i].pv = "free"})
  IN [k \in 1..Len(ids) |-> v[ids[k]].dev]

CooldownAlmostOver(w) == (now \div TicksPerSec) - (wk[w].last_reconcile \div TicksPerSec) >= RECONCILE_COOLDOWN_S

FirstBsu(list) == list[1]

LastBsu(list) == list[Len(list)]

----------------------------------------------------------------------------
(* The cloud's volumes and the host's view of them *)

NoVol == [exists |-> FALSE, size |-> 0, vm |-> "none", dev |-> 0, pv |-> "none", alloc |-> FALSE]

Existing(v) == {i \in VolIds : v[i].exists}

\* The volumes whose device is on this host.
Present(v) == {i \in VolIds : v[i].exists /\ v[i].vm = "this"}

HostDevs(v) == {v[i].dev : i \in Present(v)}

TotalGib(v) == SumOver([i \in VolIds |-> v[i].size], Existing(v))

\* Bsu::new: the reconciler's copy of one volume.
Bsu(v, i) == [id |-> i, size_gib |-> v[i].size, size_bytes |-> gib_to_bytes(v[i].size),
              vm_id |-> v[i].vm, device_path |-> v[i].dev]

\* Bsu::fetch_drive: the drive's volumes, in the order of their ids.
fetch_drive(v) == LET ids == SortedSeq(Existing(v))
                  IN [k \in 1..Len(ids) |-> Bsu(v, ids[k])]

\* Bsu::find_next_available_device: the first device path that does not exist.
find_next_available_device(v) == SetMin({d \in 1..(MaxVolumes + 1) : d \notin HostDevs(v)})

\* Bsu::multiple_attach: link every volume of the list, in order, then wait for in-use.
RECURSIVE multiple_attach(_, _)
multiple_attach(v, bsus) ==
  IF bsus = <<>> THEN v
  ELSE LET b == Head(bsus)
           d == find_next_available_device(v)
       IN multiple_attach([v EXCEPT ![b.id].vm = "this", ![b.id].dev = d], Tail(bsus))

\* No multiple_attach call is running and no link request is in flight.
NoLinks == [todo |-> [w \in Workers |-> <<>>], req |-> [i \in VolIds |-> 0]]

\* What the cloud can tell of a volume: it has none of that id, or one without a
\* state field, or one in a state.
CloudStates == {"absent", "nostate", "available", "in-use"}

NoPoll == [op |-> "none", ids |-> {}, desired |-> "none",
           cloud |-> [i \in VolIds |-> "absent"], pc |-> "none", result |-> "none",
           last |-> [i \in VolIds |-> "unasked"], errs |-> 0,
           tags |-> {}, id |-> 0, reqs |-> <<>>]

\* read_volumes with the volume_ids filter: the cloud's volumes among ids.
read_volumes(c, ids) == [i \in VolIds |-> IF i \in ids THEN c[i] ELSE "unasked"]

Reported(r) == {i \in VolIds : r[i] \notin {"unasked", "absent"}}

\* wait_states' test of a response: of the volumes in it that have a state, none has
\* another state than the desired one.
none_differs(r, desired) ==
  ~\E i \in Reported(r) : r[i] # "nostate" /\ r[i] # desired

\* get_state on the response for one id: the state of the first volume in it.
get_state(r) ==
  IF Reported(r) = {} THEN "Err"
  ELSE LET state == r[SetMin(Reported(r))]
       IN IF state = "nostate" THEN "Err" ELSE state

\* A faulty fetch_drive_filter that leaves the tag filter out.
EveryLiveVolume(p) ==
  {i \in VolIds : p.cloud[i] \in {"creating", "available", "in-use"}}

\* Bsu::fetch_drive's request: the volumes that carry the drive-name tag and are creating,
\* available or in-use.
fetch_drive_filter(p) ==
  {i \in VolIds : i \in p.tags /\ p.cloud[i] \in {"creating", "available", "in-use"}}

\* One unlink_volume followed by the wait for available: the device leaves the host.
Unlink(v, i) == [v EXCEPT ![i].vm = "none", ![i].dev = 0]

\* Bsu::multiple_detach goes on to unlink a volume of the list when its vm_id is
\* there and is this VM's.
IsAttachedHere(b) == b.vm_id # "none" /\ b.vm_id = "this"

\* Bsu::multiple_detach: unlink the volumes of the list that are attached to this VM.
RECURSIVE multiple_detach(_, _)
multiple_detach(v, bsus) ==
  IF bsus = <<>> THEN v
  ELSE LET b == Head(bsus)
       IN IF ~IsAttachedHere(b) THEN multiple_detach(v, Tail(bsus))
          ELSE multiple_detach(Unlink(v, b.id), Tail(bsus))

\* multiple_detach's unlinked_volumes: the volumes an unlink request was sent for.
unlinked_volumes(bsus) == SelectSeq(bsus, IsAttachedHere)

\* Bsu::create_gib: create, tag, wait for available.  The new volume gets a free id.
CanCreate(v, gib) == /\ Existing(v) # VolIds
                     /\ TotalGib(v) + gib <= QuotaGib

create_gib(v, gib) ==
  LET i == SetMin(VolIds \ Existing(v))
  IN [v EXCEPT ![i] = [exists |-> TRUE, size |-> gib, vm |-> "none", dev |-> 0,
                       pv |-> "none", alloc |-> FALSE]]

\* Bsu::delete: the cloud deletes a volume only when it is attached to no VM.
CanDelete(v, i) == v[i].exists /\ v[i].vm = "none"

----------------------------------------------------------------------------
(* lvm.rs: what `lvm fullreport` shows and what the commands do *)

NoLvm == [lv |-> FALSE, lv_size |-> 0, active |-> FALSE, lost |-> FALSE]

NoFs == [formatted |-> FALSE, size |-> 0, used |-> 0, mounted |-> FALSE]

\* The PVs of the drive's VG, and the bytes LVM reports for one PV.
VgPvs(v) == {i \in Existing(v) : v[i].pv = "vg"}

PvSize(v, i) == gib_to_bytes(v[i].size) - pv_overhead

\* get_report_with_no_vg().devices(): the PVs that are in no VG.
report_with_no_vg_devices(v) == {v[i].dev : i \in {j \in Present(v) : v[j].pv = "free"}}

\* get_report(name).devices(): the PVs of the drive's VG that the host sees.
report_devices(v) == {v[i].dev : i \in {j \in Present(v) : v[j].pv = "vg"}}

\* get_report(name) is Some.
get_report(v) == report_devices(v) # {}

\* Every PV the VG's metadata names is on the host.
VgComplete(v, l) == ~l.lost /\ VgPvs(v) \subseteq Present(v)

get_vg_size_bytes(v) == SumOver([i \in VolIds |-> PvSize(v, i)], VgPvs(v))

get_lv_size_bytes(l) == l.lv_size

DevVol(v, d) == CHOOSE i \in Present(v) : v[i].dev = d

\* init_pv on each device of the list (pvcreate).
RECURSIVE init_pvs(_, _)
init_pvs(v, devs) ==
  IF devs = <<>> THEN v
  ELSE init_pvs([v EXCEPT ![DevVol(v, Head(devs))].pv = "free",
                          ![DevVol(v, Head(devs))].alloc = FALSE], Tail(devs))

\* extend_vg on each device of the list (vgextend); vg_create is the same on one device.
RECURSIVE extend_vgs(_, _)
extend_vgs(v, devs) ==
  IF devs = <<>> THEN v
  ELSE extend_vgs([v EXCEPT ![DevVol(v, Head(devs))].pv = "vg"], Tail(devs))

\* lvcreate --extents 100%FREE and lvextend --extents +100%FREE use every PV of the VG.
AllocAll(v) == [i \in VolIds |-> IF i \in VgPvs(v) THEN [v[i] EXCEPT !.alloc = TRUE] ELSE v[i]]

\* vgchange -ay / lvchange -ay: the LV comes up when all its PVs are there.
Activate(v, l) == [l EXCEPT !.active = l.lv /\ VgComplete(v, l)]

\* pvmove <pv>: the extents leave the PV when the other PVs have room for the LV;
\* otherwise pvmove exits non-zero, which pv_move ignores (exec_bool).
pv_move(v, l, i) ==
  IF get_vg_size_bytes(v) - PvSize(v, i) >= l.lv_size
  THEN [v EXCEPT ![i].alloc = FALSE] ELSE v

\* The exit status of a command: 0, or 5 as lvm gives when it fails.
ExitStatus == {0, 5}

\* utils::exec_bool: Ok(output.success), whatever the exit status.
exec_bool(status) == "Ok"

\* pvmove with no argument restarts the moves that were interrupted; a pvmove of the
\* model is one step, so none is ever left to restart.
pv_move_no_arg(v) == v

\* The host's LVM as the drives share it: no pvmove is under way in any drive's VG and
\* no command has run yet.
NoMoves == [moves |-> [d \in Workers |-> "none"], last |-> [by |-> 0, on |-> {}]]

\* pvmove with no argument on a host with several VGs: every move that was interrupted,
\* in whichever VG, is started again and carried through.
ResumeMoves(m) == [d \in Workers |-> IF m[d] = "cut" THEN "none" ELSE m[d]]

\* The cloud deletes volume i; a PV of the VG that goes with it is lost to the VG.
DeleteVol(v, i) == [v EXCEPT ![i] = NoVol]

LvmAfterDelete(v, l, i) ==
  IF v[i].pv # "vg" THEN l
  ELSE IF VgPvs(v) = {i} THEN NoLvm ELSE [l EXCEPT !.lost = TRUE, !.active = FALSE]

FsAfterDelete(v, f, i) == IF v[i].pv = "vg" /\ VgPvs(v) = {i} THEN NoFs ELSE f

----------------------------------------------------------------------------
(* fs.rs: live statistics of the mounted filesystem *)

size_bytes(f) == f.size

used_bytes(f) == f.used

available_bytes(f) == f.size - f.used

----------------------------------------------------------------------------
(* drive.rs: the predicates and sizes of the staircase *)

bsu_count(list) == Len(list)

\* Drive::are_bsu_attached: every volume of the list is attached to this VM and its
\* device exists.
are_bsu_attached(list, v) ==
  \A k \in 1..Len(list) : /\ list[k].vm_id = "this"
                          /\ list[k].device_path # 0
                          /\ list[k].device_path \in HostDevs(v)

\* Drive::bsu_attach_missing: the volumes with no vm_id are attached.
IsUnattached(b) == b.vm_id = "none"

bsu_attach_missing(list, v) == multiple_attach(v, SelectSeq(list, IsUnattached))

DevicePaths(list) == [k \in 1..Len(list) |-> list[k].device_path]

\* Drive::are_pv_initialized fills pv_to_be_initialized.
pv_to_be_initialized(list, v) ==
  LET found == report_with_no_vg_devices(v) \cup report_devices(v)
      Missing(d) == d # 0 /\ d \notin found
  IN SelectSeq(DevicePaths(list), Missing)

\* Drive::is_vg_extended fills pv_to_add_to_vg; vg_create takes the first of them.
pv_to_add_to_vg(list, v) ==
  LET Free(d) == d # 0 /\ d \in report_with_no_vg_devices(v)
  IN SelectSeq(DevicePaths(list), Free)

\* Drive::all_bsu_size_gib
RECURSIVE SumBytes(_)
SumBytes(list) == IF list = <<>> THEN 0 ELSE Head(list).size_bytes + SumBytes(Tail(list))

all_bsu_size_gib(list) == bytes_to_gib_rounded(SumBytes(list))

\* Drive::largest_bsu: the first volume of the list that no other one exceeds.
largest_bsu(list) ==
  list[SetMin({k \in 1..Len(list) : \A j \in 1..Len(list) : list[j].size_bytes <= list[k].size_bytes})]

\* Drive::smallest_bsu: the first volume of the list that exceeds no other one.
smallest_bsu(list) ==
  list[SetMin({k \in 1..Len(list) : \A j \in 1..Len(list) : list[j].size_bytes >= list[k].size_bytes})]

is_drive_reached_max_attached_bsu(list) == bsu_count(list) >= cfg.max_bsu_count

is_drive_reached_max_attached_bsu_minus_one(list) == bsu_count(list) = cfg.max_bsu_count - 1

is_drive_contains_smallest_bsu(list) == smallest_bsu(list).size_gib <= cfg.initial_size_gib

\* fs::used_perc(lv_path) >= max_used_space_perc
is_drive_low_space_left(f) == f.used * 100 >= cfg.max_used_space_perc * f.size

\* fs::used_perc(lv_path) <= min_used_space_perc
is_drive_high_space_left(f) == f.used * 100 <= cfg.min_used_space_perc * f.size

is_max_space_reached(list) ==
  IF cfg.max_total_size_gib = None THEN FALSE
  ELSE \E m \in cfg.max_total_size_gib : all_bsu_size_gib(list) >= m

has_minimal_size(list) == all_bsu_size_gib(list) = cfg.initial_size_gib

\* Drive::create_larger_bsu's size
larger_bsu_size(list) ==
  LET largest_size_gib == largest_bsu(list).size_gib
      new_bsu_size_gib == CeilDiv(largest_size_gib * (100 + cfg.disk_scale_factor_perc), 100)
  IN Min2(MAX_BSU_SIZE_GIB, new_bsu_size_gib)

\* Drive::create_smaller_bsu's size
smaller_bsu_size(list) ==
  LET smallest_size_gib == smallest_bsu(list).size_gib
      new_bsu_size_gib == CeilDiv(smallest_size_gib * (100 - cfg.disk_scale_factor_perc), 100)
  IN Max2(cfg.initial_size_gib, new_bsu_size_gib)

\* Drive::create_larger_bsu's size in the code's own arithmetic (f32).
create_larger_bsu(list) ==
  LET largest_size_gib == largest_bsu(list).size_gib
      new_bsu_size_gib == F32ScaledCeil(largest_size_gib, cfg.disk_scale_factor_perc, 1)
  IN Min2(MAX_BSU_SIZE_GIB, new_bsu_size_gib)

\* Drive::create_smaller_bsu's size in the code's own arithmetic (f32).
create_smaller_bsu(list) ==
  LET smallest_size_gib == smallest_bsu(list).size_gib
      new_bsu_size_gib == F32ScaledCeil(smallest_size_gib, cfg.disk_scale_factor_perc, -1)
  IN Max2(cfg.initial_size_gib, new_bsu_size_gib)

\* Drive::ideal_size_bytes: used / ((min + max) / 2), kept within [initial, fs size].
ideal_size_bytes(f) ==
  LET ideal == CeilDiv(used_bytes(f) * 200, cfg.min_used_space_perc + cfg.max_used_space_perc)
  IN Min2(Max2(ideal, gib_to_bytes(cfg.initial_size_gib)), size_bytes(f))

ideal_bsu_size(f) == bytes_to_gib_rounded(ideal_size_bytes(f))

\* Drive::ideal_size_bytes in the code's own arithmetic, on sizes counted in blocks:
\*   (used as f32 / ((min + max) / 2.0)).ceil() as usize, then max and min.
\* With percents that are multiples of 25 the fractions and their mean are exact in f32,
\* the mean being (min + max) / 25 eighths; the quotient is 2^23 or more, where every
\* f32 is a whole number and ceil() changes nothing.
ideal_size_bytes_f32(used, size) ==
  LET used_size_bytes == to_f32(used)
      eighths == (cfg.min_used_space_perc + cfg.max_used_space_perc) \div 25
      ideal == F32Ratio(used_size_bytes * 8, eighths)
  IN Min2(Max2(ideal, cfg.initial_size_gib * BlocksPerGib), size)

NoCalc == [step |-> "none", used |-> 0, available |-> 0, size |-> 0, bsu_size |-> 0,
           new_fs_size_bytes |-> 0]

\* fs::device_seems_formated on what one read() has put into the buffer: the first n
\* bytes of the device, n being what read() returned.  A byte is 0 or 1 (non-zero).
device_seems_formated(device, n) == \E k \in 1..n : device[k] # 0

----------------------------------------------------------------------------
(* Observation of a tick *)

NoEv == [op |-> "none", size |-> 0, before |-> <<>>]

HistNone == [start |-> 0, pol |-> {}, changed |-> {}, prev_ok |-> FALSE, world0 |-> {},
             ev |-> NoEv, first |-> NoEv, cut |-> "none", resumes |-> "none",
             unlinked |-> {}]

NoRm == [op |-> "none", id |-> 0, size_bytes |-> 0, new_fs_size_bytes |-> 0]

World == <<vols, lvm, fs, mount_dir>>

Sizes(list) == [k \in 1..Len(list) |-> list[k].size_gib]

Mark(h, c) == [h EXCEPT !.changed = @ \cup {c}]

\* A volume has been created or deleted: the tick's last such event, and its first.
Event(h, e) == [h EXCEPT !.ev = e, !.first = IF @.op = "none" THEN e ELSE @]

\* Unlink requests have been sent for the volumes of the list.
Unlinked(h, bsus) == [h EXCEPT !.unlinked = @ \cup {bsus[k].id : k \in 1..Len(bsus)}]

\* The first evaluation of the policy steps in a tick: what it sees.
Observe(h) == IF h.pol # {} THEN h
              ELSE [h EXCEPT !.pol = {[used |-> fs.used, size |-> fs.size,
                                        count |-> bsu_count(all_bsu)]}]

----------------------------------------------------------------------------
(* Drive::reconcile and what ends it *)

Frame == UNCHANGED <<cfg, pv_overhead, target, kind, faults, links, host, calc, poll, now, limiter, lock,
                     wpc, wake,
                     calls, cloud_config, sup, wk>>

Goto(p) == pc' = p /\ result' = result

\* remove_bsu's locals live while remove_bsu runs.
InRemove(p) == p \in {"rm_check", "rm_resize", "rm_lvreduce", "rm_pvmove", "rm_vgreduce",
                      "rm_pvremove", "rm_lvextend", "rm_fsextend", "rm_detach", "rm_delete"}

KeepRm == rm' = IF InRemove(pc') THEN rm ELSE NoRm

ReturnOk == pc' = "idle" /\ result' = "Ok"

ReturnErr == pc' = "idle" /\ result' = "Err"

\* Drive::run calls reconcile(), which dispatches on the target.
StartReconcile ==
  LET stable == result = "Ok" /\ kind = "online" /\ target = "online"
      resumes == IF result = "Err" /\ kind = "online" /\ target = "online"
                 THEN hist.cut ELSE "none"
  IN
  /\ pc = "idle"
  /\ kind' = target
  /\ pc' = IF target = "online" THEN "on_resume" ELSE "off_umount"
  /\ result' = "none"
  /\ hist' = [HistNone EXCEPT !.start = Cardinality(Existing(vols)),
                              !.prev_ok = stable,
                              !.world0 = IF stable THEN {World} ELSE {},
                              !.resumes = resumes]
  /\ rm' = NoRm
  /\ UNCHANGED <<cfg, pv_overhead, target, all_bsu, vols, lvm, fs, mount_dir, faults>>
  /\ UNCHANGED <<links, host, calc, poll>>
  /\ UNCHANGED limVars
  /\ UNCHANGED workVars

\* Any step of a reconcile may fail before it changes anything (an external command
\* or a cloud call returns an error, early_exit sees Stop, or the daemon is killed and
\* started again): the tick ends there, and hist.cut keeps where.
StepFails ==
  /\ pc # "idle"
  /\ faults < MaxFaults
  /\ faults' = faults + 1
  /\ ReturnErr
  /\ KeepRm
  /\ hist' = [hist EXCEPT !.cut = pc]
  /\ UNCHANGED <<all_bsu, vols, lvm, fs, mount_dir>>
  /\ UNCHANGED <<cfg, pv_overhead, target, kind>>
  /\ UNCHANGED <<links, host, calc, poll>>
  /\ UNCHANGED limVars
  /\ UNCHANGED workVars

\* A volume is created (create_gib); the staircase starts again.
Create(op, gib) ==
  IF CanCreate(vols, gib)
  THEN /\ vols' = create_gib(vols, gib)
       /\ hist' = Event(Mark(hist, "create"),
                        [op |-> op, size |-> gib, before |-> Sizes(all_bsu)])
       /\ Goto("on_resume")
  ELSE /\ ReturnErr
       /\ UNCHANGED <<vols, hist>>

----------------------------------------------------------------------------
(* Drive::reconcile_online, one action per step of the staircase *)

\* crash_resume: pvmove with no argument.
CrashResume ==
  /\ pc = "on_resume"
  /\ \E status \in ExitStatus :
        IF exec_bool(status) = "Ok"
        THEN /\ vols' = IF status = 0 THEN pv_move_no_arg(vols) ELSE vols
             /\ Goto("on_fetch")
        ELSE /\ ReturnErr
             /\ UNCHANGED vols
  /\ UNCHANGED <<all_bsu, lvm, fs, mount_dir, rm, hist>>
  /\ Frame

FetchOnline ==
  /\ pc = "on_fetch"
  /\ all_bsu' = fetch_drive(vols)
  /\ Goto("on_attach")
  /\ UNCHANGED <<vols, lvm, fs, mount_dir, rm, hist>>
  /\ Frame

\* while !are_bsu_attached() { bsu_attach_missing(); fetch_all_drive_bsu() }
AttachMissing ==
  /\ pc = "on_attach"
  /\ IF are_bsu_attached(all_bsu, vols)
     THEN /\ Goto("on_bootstrap")
          /\ UNCHANGED <<all_bsu, vols, hist>>
     ELSE /\ vols' = bsu_attach_missing(all_bsu, vols)
          /\ all_bsu' = fetch_drive(vols')
          /\ hist' = IF vols' # vols THEN Mark(hist, "attach") ELSE hist
          /\ Goto("on_attach")
  /\ UNCHANGED <<lvm, fs, mount_dir, rm>>
  /\ Frame

\* Drive::create_initial_bsu's size
create_initial_bsu_size == cfg.initial_size_gib

\* if bsu_count() == 0 { create_initial_bsu(); continue 'start_again }
Bootstrap ==
  /\ pc = "on_bootstrap"
  /\ IF bsu_count(all_bsu) = 0
     THEN Create("initial", create_initial_bsu_size)
     ELSE /\ Goto("on_pvinit")
          /\ UNCHANGED <<vols, hist>>
  /\ UNCHANGED <<all_bsu, lvm, fs, mount_dir, rm>>
  /\ Frame

\* while !are_pv_initialized() { pv_initialize_missing() }, then vg_scan
PvInit ==
  /\ pc = "on_pvinit"
  /\ LET todo == pv_to_be_initialized(all_bsu, vols)
     IN IF todo = <<>>
        THEN Goto("on_vgcreate") /\ UNCHANGED vols
        ELSE vols' = init_pvs(vols, todo) /\ Goto("on_pvinit")
  /\ UNCHANGED <<all_bsu, lvm, fs, mount_dir, rm, hist>>
  /\ Frame

\* while !is_vg_created() { vg_create() }, then enable_vg
VgCreate ==
  /\ pc = "on_vgcreate"
  /\ LET free == pv_to_add_to_vg(all_bsu, vols)
     IN IF get_report(vols)
        THEN /\ lvm' = Activate(vols, lvm)
             /\ Goto("on_vgextend")
             /\ UNCHANGED vols
        ELSE IF free = <<>>
        THEN ReturnErr /\ UNCHANGED <<vols, lvm>>
        ELSE /\ vols' = extend_vgs(vols, <<Head(free)>>)
             /\ Goto("on_vgcreate")
             /\ UNCHANGED lvm
  /\ UNCHANGED <<all_bsu, fs, mount_dir, rm, hist>>
  /\ Frame

\* while !is_vg_extended() { vg_extend() }; vgextend refuses a VG with a missing PV.
VgExtend ==
  /\ pc = "on_vgextend"
  /\ LET todo == pv_to_add_to_vg(all_bsu, vols)
     IN IF todo = <<>>
        THEN Goto("on_lvcreate") /\ UNCHANGED vols
        ELSE IF lvm.lost
        THEN ReturnErr /\ UNCHANGED vols
        ELSE vols' = extend_vgs(vols, todo) /\ Goto("on_vgextend")
  /\ UNCHANGED <<all_bsu, lvm, fs, mount_dir, rm, hist>>
  /\ Frame

\* while !is_lv_created() { lv_create() }, then enable_lv
LvCreate ==
  /\ pc = "on_lvcreate"
  /\ IF ~get_report(vols) \/ (~lvm.lv /\ lvm.lost)
     THEN ReturnErr /\ UNCHANGED <<vols, lvm, fs>>
     ELSE IF lvm.lv
     THEN /\ lvm' = Activate(vols, lvm)
          /\ Goto("on_lvextend")
          /\ UNCHANGED <<vols, fs>>
     ELSE /\ lvm' = [lvm EXCEPT !.lv = TRUE, !.lv_size = get_vg_size_bytes(vols),
                                !.active = TRUE]
          /\ vols' = AllocAll(vols)
          /\ fs' = NoFs
          /\ Goto("on_lvcreate")
  /\ UNCHANGED <<all_bsu, mount_dir, rm, hist>>
  /\ Frame

\* A faulty lv_extend that leaves the LV as it is.
NoLvExtend(next) == Goto(next) /\ UNCHANGED <<vols, lvm>>

\* A faulty lv_extend that does not compare the sizes.
LvExtendAnyway(next) ==
  /\ lvm' = [lvm EXCEPT !.lv_size = get_vg_size_bytes(vols)]
  /\ vols' = AllocAll(vols)
  /\ Goto(next)

\* Drive::lv_extend, used by the staircase and by remove_bsu.
lv_extend(next) ==
  LET vg_size == get_vg_size_bytes(vols)
      lv_size == get_lv_size_bytes(lvm)
  IN IF ~get_report(vols) \/ ~lvm.lv \/ vg_size < lv_size \/ (vg_size > lv_size /\ lvm.lost)
     THEN ReturnErr /\ UNCHANGED <<vols, lvm>>
     ELSE IF vg_size > lv_size
     THEN /\ lvm' = [lvm EXCEPT !.lv_size = vg_size]
          /\ vols' = AllocAll(vols)
          /\ Goto(next)
     ELSE Goto(next) /\ UNCHANGED <<vols, lvm>>

LvExtend ==
  /\ pc = "on_lvextend"
  /\ lv_extend("on_format")
  /\ UNCHANGED <<all_bsu, fs, mount_dir, rm, hist>>
  /\ Frame

\* while !is_fs_formated() { fs_format() }; the LV's device is read, so it must be up.
Format ==
  /\ pc = "on_format"
  /\ IF ~lvm.active
     THEN ReturnErr /\ UNCHANGED fs
     ELSE IF fs.formatted
     THEN Goto("on_mkdir") /\ UNCHANGED fs
     ELSE /\ fs' = [formatted |-> TRUE, size |-> lvm.lv_size, used |-> 0, mounted |-> FALSE]
          /\ Goto("on_format")
  /\ UNCHANGED <<all_bsu, vols, lvm, mount_dir, rm, hist>>
  /\ Frame

\* while !is_mount_path_created() { create_mount_path() }
Mkdir ==
  /\ pc = "on_mkdir"
  /\ IF mount_dir
     THEN Goto("on_mount") /\ UNCHANGED mount_dir
     ELSE mount_dir' = TRUE /\ Goto("on_mkdir")
  /\ UNCHANGED <<all_bsu, vols, lvm, fs, rm, hist>>
  /\ Frame

\* while !is_fs_mounted() { fs_mount() }
Mount ==
  /\ pc = "on_mount"
  /\ IF fs.mounted
     THEN Goto("on_fsextend") /\ UNCHANGED fs
     ELSE fs' = [fs EXCEPT !.mounted = TRUE] /\ Goto("on_mount")
  /\ UNCHANGED <<all_bsu, vols, lvm, mount_dir, rm, hist>>
  /\ Frame

\* while !is_fs_extended() { fs_extend() }; is_fs_extended fails on fs_size > lv_size.
FsExtend ==
  /\ pc = "on_fsextend"
  /\ IF size_bytes(fs) > get_lv_size_bytes(lvm)
     THEN ReturnErr /\ UNCHANGED fs
     ELSE IF size_bytes(fs) = get_lv_size_bytes(lvm)
     THEN Goto("on_cap") /\ UNCHANGED fs
     ELSE fs' = [fs EXCEPT !.size = lvm.lv_size] /\ Goto("on_fsextend")
  /\ UNCHANGED <<all_bsu, vols, lvm, mount_dir, rm, hist>>
  /\ Frame

\* remove_bsu is entered with the volume to remove.
EnterRemove(op, bsu) ==
  /\ rm' = [op |-> op, id |-> bsu.id, size_bytes |-> bsu.size_bytes, new_fs_size_bytes |-> 0]
  /\ Goto("rm_check")

\* if is_drive_reached_max_attached_bsu() { remove_smallest_bsu(); continue 'start_again }
Cap ==
  /\ pc = "on_cap"
  /\ hist' = Observe(hist)
  /\ IF is_drive_reached_max_attached_bsu(all_bsu)
     THEN EnterRemove("smallest", smallest_bsu(all_bsu))
     ELSE Goto("on_low") /\ UNCHANGED rm
  /\ UNCHANGED <<all_bsu, vols, lvm, fs, mount_dir>>
  /\ Frame

\* The low-space branch creates a smaller volume or a larger one.
creates_smaller(list) ==
  /\ ~is_drive_reached_max_attached_bsu_minus_one(list)
  /\ ~is_drive_contains_smallest_bsu(list)

Low ==
  /\ pc = "on_low"
  /\ IF ~is_drive_low_space_left(fs)
     THEN Goto("on_high") /\ UNCHANGED <<vols, hist>>
     ELSE IF is_max_space_reached(all_bsu)
     THEN ReturnOk /\ UNCHANGED <<vols, hist>>
     ELSE IF creates_smaller(all_bsu)
     THEN Create("smaller", smaller_bsu_size(all_bsu))
     ELSE Create("larger", larger_bsu_size(all_bsu))
  /\ UNCHANGED <<all_bsu, lvm, fs, mount_dir, rm>>
  /\ Frame

High ==
  /\ pc = "on_high"
  /\ IF ~is_drive_high_space_left(fs)
     THEN ReturnOk /\ UNCHANGED <<vols, hist, rm>>
     ELSE IF bsu_count(all_bsu) > 1
     THEN EnterRemove("largest", largest_bsu(all_bsu)) /\ UNCHANGED <<vols, hist>>
     ELSE IF has_minimal_size(all_bsu)
     THEN ReturnOk /\ UNCHANGED <<vols, hist, rm>>
     ELSE Create("ideal", ideal_bsu_size(fs)) /\ UNCHANGED rm
  /\ UNCHANGED <<all_bsu, lvm, fs, mount_dir>>
  /\ Frame

----------------------------------------------------------------------------
(* Drive::remove_bsu, one action per command *)

\* The free-space guard and the size the filesystem is shrunk to.
RmCheck ==
  /\ pc = "rm_check"
  /\ IF available_bytes(fs) < rm.size_bytes
     THEN ReturnErr /\ rm' = NoRm
     ELSE LET largest_possible_new_fs_size == size_bytes(fs) - rm.size_bytes
          IN /\ rm' = [rm EXCEPT !.new_fs_size_bytes =
                          Min2(largest_possible_new_fs_size, ideal_size_bytes(fs))]
             /\ Goto("rm_resize")
  /\ UNCHANGED <<all_bsu, vols, lvm, fs, mount_dir, hist>>
  /\ Frame

\* fs::resize: btrfs refuses to shrink under the data it holds.
RmResize ==
  /\ pc = "rm_resize"
  /\ IF rm.new_fs_size_bytes < used_bytes(fs) \/ ~fs.mounted
     THEN ReturnErr /\ UNCHANGED <<fs, hist>>
     ELSE /\ fs' = [fs EXCEPT !.size = rm.new_fs_size_bytes]
          /\ hist' = Mark(hist, "remove")
          /\ Goto("rm_lvreduce")
  /\ UNCHANGED <<all_bsu, vols, lvm, mount_dir>>
  /\ KeepRm
  /\ Frame

\* lvm::lv_reduce: lvreduce refuses a size that is not under the LV's size.
RmLvReduce ==
  /\ pc = "rm_lvreduce"
  /\ IF rm.new_fs_size_bytes >= lvm.lv_size
     THEN ReturnErr /\ UNCHANGED lvm
     ELSE lvm' = [lvm EXCEPT !.lv_size = rm.new_fs_size_bytes] /\ Goto("rm_pvmove")
  /\ UNCHANGED <<all_bsu, vols, fs, mount_dir, hist>>
  /\ KeepRm
  /\ Frame

RmPvMove ==
  /\ pc = "rm_pvmove"
  /\ vols' = pv_move(vols, lvm, rm.id)
  /\ Goto("rm_vgreduce")
  /\ UNCHANGED <<all_bsu, lvm, fs, mount_dir, hist>>
  /\ KeepRm
  /\ Frame

\* pvmove exits non-zero and has moved nothing; pv_move drops exec_bool's result and
\* remove_bsu goes on to vgreduce.
RmPvMoveFails ==
  /\ pc = "rm_pvmove"
  /\ faults < MaxFaults
  /\ faults' = faults + 1
  /\ Goto("rm_vgreduce")
  /\ KeepRm
  /\ hist' = [hist EXCEPT !.cut = pc]
  /\ UNCHANGED <<all_bsu, vols, lvm, fs, mount_dir>>
  /\ UNCHANGED <<cfg, pv_overhead, target, kind>>
  /\ UNCHANGED <<links, host, calc, poll>>
  /\ UNCHANGED limVars
  /\ UNCHANGED workVars

\* lvm::vg_reduce: vgreduce refuses a PV that holds extents and the VG's last PV.
RmVgReduce ==
  /\ pc = "rm_vgreduce"
  /\ IF vols[rm.id].alloc \/ VgPvs(vols) = {rm.id} \/ vols[rm.id].pv # "vg" \/ lvm.lost
     THEN ReturnErr /\ UNCHANGED vols
     ELSE vols' = [vols EXCEPT ![rm.id].pv = "free"] /\ Goto("rm_pvremove")
  /\ UNCHANGED <<all_bsu, lvm, fs, mount_dir, hist>>
  /\ KeepRm
  /\ Frame

RmPvRemove ==
  /\ pc = "rm_pvremove"
  /\ vols' = [vols EXCEPT ![rm.id].pv = "none"]
  /\ Goto("rm_lvextend")
  /\ UNCHANGED <<all_bsu, lvm, fs, mount_dir, hist>>
  /\ KeepRm
  /\ Frame

RmLvExtend ==
  /\ pc = "rm_lvextend"
  /\ lv_extend("rm_fsextend")
  /\ UNCHANGED <<all_bsu, fs, mount_dir, hist>>
  /\ KeepRm
  /\ Frame

\* Drive::fs_extend: btrfs filesystem resize max
RmFsExtend ==
  /\ pc = "rm_fsextend"
  /\ fs' = [fs EXCEPT !.size = lvm.lv_size]
  /\ Goto("rm_detach")
  /\ UNCHANGED <<all_bsu, vols, lvm, mount_dir, hist>>
  /\ KeepRm
  /\ Frame

\* Bsu::detach
RmDetach ==
  /\ pc = "rm_detach"
  /\ vols' = Unlink(vols, rm.id)
  /\ hist' = Mark(hist, "detach")
  /\ Goto("rm_delete")
  /\ UNCHANGED <<all_bsu, lvm, fs, mount_dir>>
  /\ KeepRm
  /\ Frame

\* Bsu::delete, then `continue 'start_again`
RmDelete ==
  /\ pc = "rm_delete"
  /\ IF ~CanDelete(vols, rm.id)
     THEN ReturnErr /\ UNCHANGED <<vols, lvm, fs, hist>>
     ELSE /\ vols' = DeleteVol(vols, rm.id)
          /\ lvm' = LvmAfterDelete(vols, lvm, rm.id)
          /\ fs' = FsAfterDelete(vols, fs, rm.id)
          /\ hist' = Event(Mark(hist, "delete"),
                           [op |-> rm.op, size |-> vols[rm.id].size,
                            before |-> Sizes(all_bsu)])
          /\ Goto("on_resume")
  /\ UNCHANGED <<all_bsu, mount_dir>>
  /\ KeepRm
  /\ Frame

----------------------------------------------------------------------------
(* Drive::reconcile_offline and Drive::reconcile_delete *)

\* while is_fs_mounted() { fs_umount() }, then disable_lv and disable_vg
OffUmount ==
  /\ pc = "off_umount"
  /\ IF fs.mounted
     THEN fs' = [fs EXCEPT !.mounted = FALSE] /\ Goto("off_umount") /\ UNCHANGED lvm
     ELSE lvm' = [lvm EXCEPT !.active = FALSE] /\ Goto("off_fetch") /\ UNCHANGED fs
  /\ UNCHANGED <<all_bsu, vols, mount_dir, rm, hist>>
  /\ Frame

\* reconcile_offline has returned Ok: reconcile_delete goes on with delete_all_bsu.
OfflineDone ==
  IF kind = "delete" THEN Goto("del_all") ELSE ReturnOk

\* fetch_all_drive_bsu(); if bsu_count() == 0 { return Ok(()) }
OffFetch ==
  /\ pc = "off_fetch"
  /\ all_bsu' = fetch_drive(vols)
  /\ IF bsu_count(all_bsu') = 0 THEN OfflineDone ELSE Goto("off_detach")
  /\ UNCHANGED <<vols, lvm, fs, mount_dir, rm, hist>>
  /\ Frame

\* Detaching a PV's device takes the LV down with it.
LvmAfterUnlink(v, l) == IF VgPvs(v) \subseteq Present(v) THEN l ELSE [l EXCEPT !.active = FALSE]

\* while are_bsu_attached() { bsu_detach_all_from_this_vm(); fetch_all_drive_bsu() }
OffDetach ==
  /\ pc = "off_detach"
  /\ IF are_bsu_attached(all_bsu, vols)
     THEN /\ vols' = multiple_detach(vols, all_bsu)
          /\ all_bsu' = fetch_drive(vols')
          /\ lvm' = LvmAfterUnlink(vols', lvm)
          /\ hist' = Unlinked(Mark(hist, "detach"), unlinked_volumes(all_bsu))
          /\ Goto("off_detach")
     ELSE /\ OfflineDone
          /\ UNCHANGED <<all_bsu, vols, lvm, hist>>
  /\ UNCHANGED <<fs, mount_dir, rm>>
  /\ Frame

\* Drive::delete_all_bsu: delete the volumes of the list in order, stop at the first
\* refusal.
RECURSIVE delete_all_bsu(_, _, _, _)
delete_all_bsu(v, l, f, list) ==
  IF list = <<>> THEN [vols |-> v, lvm |-> l, fs |-> f, ok |-> TRUE]
  ELSE LET i == Head(list).id
       IN IF ~CanDelete(v, i) THEN [vols |-> v, lvm |-> l, fs |-> f, ok |-> FALSE]
          ELSE delete_all_bsu(DeleteVol(v, i), LvmAfterDelete(v, l, i),
                              FsAfterDelete(v, f, i), Tail(list))

DeleteAll ==
  /\ pc = "del_all"
  /\ LET r == delete_all_bsu(vols, lvm, fs, all_bsu)
     IN /\ vols' = r.vols
        /\ lvm' = r.lvm
        /\ fs' = r.fs
        /\ hist' = Event(IF r.vols # vols THEN Mark(hist, "delete") ELSE hist,
                         [op |-> "delete_all", size |-> 0, before |-> Sizes(all_bsu)])
        /\ IF r.ok THEN ReturnOk ELSE ReturnErr
  /\ UNCHANGED <<all_bsu, mount_dir, rm>>
  /\ Frame

----------------------------------------------------------------------------
(* What happens around the worker, between two ticks *)

\* Programs write to and delete from the mounted filesystem.  The amounts of data
\* tried are none, full, and those next to the two thresholds and to their middle.
Dist(a, b) == IF a >= b THEN a - b ELSE b - a

UsedLevels(f) ==
  {u \in 0..f.size :
     \/ u \in {0, f.size}
     \/ Dist(u * 100, cfg.min_used_space_perc * f.size) <= 100
     \/ Dist(u * 100, cfg.max_used_space_perc * f.size) <= 100
     \/ Dist(u * 200, (cfg.min_used_space_perc + cfg.max_used_space_perc) * f.size) < 200}

Write ==
  /\ pc = "idle"
  /\ fs.mounted
  /\ \E u \in UsedLevels(fs) : u # fs.used /\ fs' = [fs EXCEPT !.used = u]
  /\ result' = "none"
  /\ hist' = HistNone
  /\ UNCHANGED <<pc, all_bsu, vols, lvm, mount_dir, rm>>
  /\ Frame

\* The drive is given another target (Drive.target is set from the configuration).
SetTarget ==
  /\ pc = "idle"
  /\ \E t \in Targets : t # target /\ target' = t
  /\ result' = "none"
  /\ hist' = HistNone
  /\ UNCHANGED <<cfg, pv_overhead, kind, pc, all_bsu, vols, lvm, fs, mount_dir, rm, faults>>
  /\ UNCHANGED <<links, host, calc, poll>>
  /\ UNCHANGED limVars
  /\ UNCHANGED workVars

\* Another VM of the account attaches an available volume of the drive, or lets it go.
OtherVm ==
  /\ pc = "idle"
  /\ \E i \in Existing(vols) :
        \/ vols[i].vm = "none" /\ vols' = [vols EXCEPT ![i].vm = "other"]
        \/ vols[i].vm = "other" /\ vols' = [vols EXCEPT ![i].vm = "none"]
  /\ result' = "none"
  /\ hist' = HistNone
  /\ UNCHANGED <<pc, all_bsu, lvm, fs, mount_dir, rm>>
  /\ Frame

----------------------------------------------------------------------------
(* The drive worker's specification *)

\* API_LIMITER starts API_LIMITER_S seconds in the past.
LimiterIdle ==
  /\ now = 0
  /\ limiter = 0 - API_LIMITER_S * TicksPerSec
  /\ lock = 0
  /\ wpc = [w \in Workers |-> "idle"]
  /\ wake = [w \in Workers |-> 0]
  /\ calls = <<>>
  /\ cloud_config = {}

\* Drives::run has returned: one worker per drive, each in Drive::run's loop.
\* Drive::new: last_reconcile is RECONCILE_COOLDOWN_S seconds in the past.
Worker(n, t) == [pos |-> "cooldown", target |-> t, name |-> n, chan |-> 0, exit |-> FALSE,
                 sent |-> FALSE, since |-> 0,
                 last_reconcile |-> 0 - RECONCILE_COOLDOWN_S * TicksPerSec,
                 runs |-> 0, res |-> "none"]

WorkersIdle ==
  /\ sup = [pc |-> "run", tosend |-> {}]
  /\ wk = [w \in Workers |-> Worker(w, "online")]

Init ==
  /\ cfg \in Configs
  /\ pv_overhead \in 0..MaxPvOverhead
  /\ target \in Targets
  /\ kind = "none"
  /\ pc = "idle"
  /\ result = "none"
  /\ all_bsu = <<>>
  /\ vols = [i \in VolIds |-> NoVol]
  /\ lvm = NoLvm
  /\ fs = NoFs
  /\ mount_dir = FALSE
  /\ rm = NoRm
  /\ hist = HistNone
  /\ faults = 0
  /\ links = NoLinks
  /\ host = NoMoves
  /\ calc = NoCalc
  /\ poll = NoPoll
  /\ LimiterIdle
  /\ WorkersIdle

Next ==
  \/ StartReconcile
  \/ StepFails
  \/ CrashResume
  \/ FetchOnline
  \/ AttachMissing
  \/ Bootstrap
  \/ PvInit
  \/ VgCreate
  \/ VgExtend
  \/ LvCreate
  \/ LvExtend
  \/ Format
  \/ Mkdir
  \/ Mount
  \/ FsExtend
  \/ Cap
  \/ Low
  \/ High
  \/ RmCheck
  \/ RmResize
  \/ RmLvReduce
  \/ RmPvMove
  \/ RmPvMoveFails
  \/ RmVgReduce
  \/ RmPvRemove
  \/ RmLvExtend
  \/ RmFsExtend
  \/ RmDetach
  \/ RmDelete
  \/ OffUmount
  \/ OffFetch
  \/ OffDetach
  \/ DeleteAll
  \/ Write
  \/ SetTarget
  \/ OtherVm

Spec == Init /\ [][Next]_vars

\* One step of reconcile_online, every call of which succeeds.
TickStep ==
  \/ CrashResume
  \/ FetchOnline
  \/ AttachMissing
  \/ Bootstrap
  \/ PvInit
  \/ VgCreate
  \/ VgExtend
  \/ LvCreate
  \/ LvExtend
  \/ Format
  \/ Mkdir
  \/ Mount
  \/ FsExtend
  \/ Cap
  \/ Low
  \/ High
  \/ RmCheck
  \/ RmResize
  \/ RmLvReduce
  \/ RmPvMove
  \/ RmVgReduce
  \/ RmPvRemove
  \/ RmLvExtend
  \/ RmFsExtend
  \/ RmDetach
  \/ RmDelete

\* The steps from lv_extend to fs_extend on a host whose VG, LV and filesystem sizes
\* are any: the LV may have been reduced or grown by hand, the filesystem resized.
\* One or two attached volumes make the VG.
ExtendInit ==
  /\ cfg = CHOOSE c \in Configs : c.max_bsu_count = 3
  /\ pv_overhead = 0
  /\ target = "online"
  /\ kind = "online"
  /\ pc = "on_lvextend"
  /\ result = "none"
  /\ \E a \in {6, 10}, b \in {0, 6} :
        vols = [i \in VolIds |->
                  IF i = 1 \/ (i = 2 /\ b # 0)
                  THEN [exists |-> TRUE, size |-> IF i = 1 THEN a ELSE b, vm |-> "this",
                        dev |-> i, pv |-> "vg", alloc |-> TRUE]
                  ELSE NoVol]
  /\ all_bsu = fetch_drive(vols)
  /\ \E lv_size \in (get_vg_size_bytes(vols) - 2)..(get_vg_size_bytes(vols) + 2) :
        lvm = [lv |-> TRUE, lv_size |-> lv_size, active |-> TRUE, lost |-> FALSE]
  /\ \/ fs = NoFs
     \/ \E size \in (get_vg_size_bytes(vols) - 3)..(get_vg_size_bytes(vols) + 3),
           mounted \in BOOLEAN :
           fs = [formatted |-> TRUE, size |-> size, used |-> 1, mounted |-> mounted]
  /\ mount_dir = fs.mounted
  /\ rm = NoRm
  /\ hist = HistNone
  /\ faults = 0
  /\ links = NoLinks
  /\ host = NoMoves
  /\ calc = NoCalc
  /\ poll = NoPoll
  /\ LimiterIdle
  /\ WorkersIdle

ExtendNext ==
  \/ LvExtend
  \/ Format
  \/ Mkdir
  \/ Mount
  \/ FsExtend

ExtendSpec == ExtendInit /\ [][ExtendNext]_vars

OnlineInit == Init /\ target = "online"

\* The used bytes change between two reconciles only.
OnlineNext ==
  \/ StartReconcile
  \/ Write
  \/ TickStep

\* The worker's thread is never suspended for ever: a reconcile that has a next
\* step takes it.
OnlineSpec == OnlineInit /\ [][OnlineNext]_vars /\ WF_vars(TickStep)

\* The drive's volumes as the cloud may hold them when an offline reconcile has fetched
\* them: each one absent, available, attached to this VM or attached to another VM.
DetachInit ==
  /\ cfg = CHOOSE c \in Configs : c.max_bsu_count = 3
  /\ pv_overhead = 0
  /\ target = "offline"
  /\ kind = "offline"
  /\ pc = "off_detach"
  /\ result = "none"
  /\ \E att \in [VolIds -> {"absent", "none", "this", "other"}] :
        vols = [i \in VolIds |->
                  IF att[i] = "absent" THEN NoVol
                  ELSE [exists |-> TRUE, size |-> cfg.initial_size_gib, vm |-> att[i],
                        dev |-> IF att[i] = "this" THEN i ELSE 0,
                        pv |-> "none", alloc |-> FALSE]]
  /\ all_bsu = fetch_drive(vols)
  /\ lvm = NoLvm
  /\ fs = NoFs
  /\ mount_dir = FALSE
  /\ rm = NoRm
  /\ hist = HistNone
  /\ faults = 0
  /\ links = NoLinks
  /\ host = NoMoves
  /\ calc = NoCalc
  /\ poll = NoPoll
  /\ LimiterIdle
  /\ WorkersIdle

\* Drive::bsu_detach_all_from_this_vm: Bsu::multiple_detach(&self.all_bsu), then the
\* caller fetches the volumes again.
DetachAll ==
  /\ pc = "off_detach"
  /\ vols' = multiple_detach(vols, all_bsu)
  /\ lvm' = LvmAfterUnlink(vols', lvm)
  /\ hist' = Unlinked(Mark(hist, "detach"), unlinked_volumes(all_bsu))
  /\ Goto("off_fetch")
  /\ UNCHANGED <<all_bsu, fs, mount_dir, rm>>
  /\ Frame

DetachNext ==
  \/ DetachAll
  \/ OffFetch

DetachSpec == DetachInit /\ [][DetachNext]_vars

----------------------------------------------------------------------------
(* The PV and VG steps among other drives' devices *)

\* Every volume is attached to this VM.  Those of the drive are in all_bsu, in any
\* LVM state; the others belong to other drives and are plain devices or unassigned
\* PVs.  hist.world0 keeps the state the steps start from.
PvSpecInit ==
  /\ cfg = CHOOSE c \in Configs : c.max_bsu_count = 3
  /\ pv_overhead = 0
  /\ target = "online"
  /\ kind = "online"
  /\ pc = "on_pvinit"
  /\ result = "none"
  /\ \E own \in [VolIds -> BOOLEAN], st \in [VolIds -> {"none", "free", "vg"}] :
        /\ \A i \in VolIds : st[i] = "vg" => own[i]
        /\ vols = [i \in VolIds |->
                     [exists |-> TRUE, size |-> cfg.initial_size_gib, vm |-> "this",
                      dev |-> i, pv |-> st[i], alloc |-> FALSE]]
        /\ all_bsu = LET ids == SortedSeq({i \in VolIds : own[i]})
                     IN [k \in 1..Len(ids) |-> Bsu(vols, ids[k])]
  /\ lvm = NoLvm
  /\ fs = NoFs
  /\ mount_dir = FALSE
  /\ rm = NoRm
  /\ hist = [HistNone EXCEPT !.world0 = {World}]
  /\ faults = 0
  /\ links = NoLinks
  /\ host = NoMoves
  /\ calc = NoCalc
  /\ poll = NoPoll
  /\ LimiterIdle
  /\ WorkersIdle

PvSpecNext ==
  \/ PvInit
  \/ VgCreate
  \/ VgExtend

PvSpec == PvSpecInit /\ [][PvSpecNext]_vars

----------------------------------------------------------------------------
(* Bsu::wait_state and Bsu::wait_states *)

WaitFrame == /\ UNCHANGED <<cfg, pv_overhead, target, pc, kind, result, all_bsu, vols,
                            lvm, fs, mount_dir, rm, hist, faults, links, host, calc>>
             /\ UNCHANGED limVars
             /\ UNCHANGED workVars

\* One turn of wait_states' loop: api_limiter, read_volumes; on a provider error
\* `continue`; otherwise return Ok or loop on what the response shows.
WaitStatesPoll ==
  /\ poll.op = "wait_states"
  /\ poll.pc = "loop"
  /\ \/ /\ poll.errs < MaxErrs
        /\ poll' = [poll EXCEPT !.errs = @ + 1]
     \/ LET r == read_volumes(poll.cloud, poll.ids)
            done == none_differs(r, poll.desired)
        IN poll' = [poll EXCEPT !.last = r,
                                !.pc = IF done THEN "returned" ELSE "loop",
                                !.result = IF done THEN "Ok" ELSE "none"]
  /\ WaitFrame

\* One turn of wait_state's loop: get_state (api_limiter, read_volumes, `response?`,
\* first volume, its state), then return Ok or loop.
WaitStatePoll ==
  /\ poll.op = "wait_state"
  /\ poll.pc = "loop"
  /\ \/ /\ poll.errs < MaxErrs
        /\ poll' = [poll EXCEPT !.errs = @ + 1, !.pc = "returned", !.result = "Err"]
     \/ LET r == read_volumes(poll.cloud, poll.ids)
            volume_state == get_state(r)
        IN poll' = [poll EXCEPT !.last = r,
                                !.pc = IF volume_state \in {"Err", poll.desired}
                                       THEN "returned" ELSE "loop",
                                !.result = IF volume_state = "Err" THEN "Err"
                                           ELSE IF volume_state = poll.desired THEN "Ok"
                                           ELSE "none"]
  /\ WaitFrame

\* The cloud while the call polls: a volume changes state, is deleted, or appears.
CloudMoves ==
  /\ poll.pc = "loop"
  /\ \E i \in VolIds, st \in CloudStates :
        /\ poll.cloud[i] # st
        /\ poll' = [poll EXCEPT !.cloud[i] = st]
  /\ WaitFrame

WaitInit ==
  /\ cfg = CHOOSE c \in Configs : c.max_bsu_count = 3
  /\ pv_overhead = 0
  /\ target = "online"
  /\ kind = "none"
  /\ pc = "idle"
  /\ result = "none"
  /\ all_bsu = <<>>
  /\ vols = [i \in VolIds |-> NoVol]
  /\ lvm = NoLvm
  /\ fs = NoFs
  /\ mount_dir = FALSE
  /\ rm = NoRm
  /\ hist = HistNone
  /\ faults = 0
  /\ links = NoLinks
  /\ host = NoMoves
  /\ calc = NoCalc
  /\ LimiterIdle
  /\ WorkersIdle
  /\ \E op \in {"wait_state", "wait_states"}, ids \in SUBSET VolIds,
        desired \in {"available", "in-use"}, c \in [VolIds -> CloudStates] :
        /\ ids # {}
        /\ op = "wait_state" => Cardinality(ids) = 1
        /\ poll = [NoPoll EXCEPT !.op = op, !.ids = ids, !.desired = desired,
                                 !.cloud = c, !.pc = "loop"]

WaitNext ==
  \/ WaitStatesPoll
  \/ WaitStatePoll
  \/ CloudMoves

WaitSpec == WaitInit /\ [][WaitNext]_vars

----------------------------------------------------------------------------
(* Bsu::create_gib, request by request *)

Sent(p, req) == [p EXCEPT !.reqs = Append(@, req)]

\* create_volume: on a provider error return it; a response without a volume or
\* without a volume id is an error too; otherwise go on with the new volume's id.
CreateVolume ==
  /\ poll.op = "create_gib"
  /\ poll.pc = "create"
  /\ LET free == {i \in VolIds : poll.cloud[i] = "absent"}
         p == Sent(poll, "create")
     IN \/ /\ poll.errs < MaxErrs
           /\ poll' = [p EXCEPT !.errs = @ + 1, !.pc = "returned", !.result = "Err"]
        \/ /\ free # {}
           /\ \E has_id \in BOOLEAN :
                 poll' = [p EXCEPT !.cloud[SetMin(free)] = "creating",
                                   !.id = IF has_id THEN SetMin(free) ELSE 0,
                                   !.pc = IF has_id THEN "tag" ELSE "returned",
                                   !.result = IF has_id THEN "none" ELSE "Err"]
  /\ WaitFrame

\* create_tags: on a provider error return it, the volume stays as it is;
\* otherwise the volume carries the drive-name tag and the wait starts.
CreateTags ==
  /\ poll.op = "create_gib"
  /\ poll.pc = "tag"
  /\ LET p == Sent(poll, "tag")
     IN \/ /\ poll.errs < MaxErrs
           /\ poll' = [p EXCEPT !.errs = @ + 1, !.pc = "returned", !.result = "Err"]
        \/ poll' = [p EXCEPT !.tags = @ \cup {poll.id}, !.pc = "wait"]
  /\ WaitFrame

\* wait_state(bsu_id, "available"): one turn of its loop.
CreateWait ==
  /\ poll.op = "create_gib"
  /\ poll.pc = "wait"
  /\ Len(poll.reqs) < MaxReqs
  /\ LET p == Sent(poll, "read")
     IN \/ /\ poll.errs < MaxErrs
           /\ poll' = [p EXCEPT !.errs = @ + 1, !.pc = "returned", !.result = "Err"]
        \/ LET r == read_volumes(poll.cloud, {poll.id})
               volume_state == get_state(r)
           IN poll' = [p EXCEPT !.last = r,
                                !.pc = IF volume_state \in {"Err", "available"}
                                       THEN "returned" ELSE "wait",
                                !.result = IF volume_state = "Err" THEN "Err"
                                           ELSE IF volume_state = "available" THEN "Ok"
                                           ELSE "none"]
  /\ WaitFrame

\* The cloud meanwhile: a volume being created becomes available.
CloudCreates ==
  /\ poll.op = "create_gib"
  /\ \E i \in VolIds :
        /\ poll.cloud[i] = "creating"
        /\ poll' = [poll EXCEPT !.cloud[i] = "available"]
  /\ WaitFrame

CreateInit ==
  /\ cfg = CHOOSE c \in Configs : c.max_bsu_count = 3
  /\ pv_overhead = 0
  /\ target = "online"
  /\ kind = "none"
  /\ pc = "idle"
  /\ result = "none"
  /\ all_bsu = <<>>
  /\ vols = [i \in VolIds |-> NoVol]
  /\ lvm = NoLvm
  /\ fs = NoFs
  /\ mount_dir = FALSE
  /\ rm = NoRm
  /\ hist = HistNone
  /\ faults = 0
  /\ links = NoLinks
  /\ host = NoMoves
  /\ calc = NoCalc
  /\ LimiterIdle
  /\ WorkersIdle
  /\ \E c \in [VolIds -> {"absent", "available", "in-use"}], t \in SUBSET VolIds :
        /\ \A i \in t : c[i] # "absent"
        /\ poll = [NoPoll EXCEPT !.op = "create_gib", !.cloud = c, !.tags = t,
                                 !.pc = "create"]

CreateNext ==
  \/ CreateVolume
  \/ CreateTags
  \/ CreateWait
  \/ CloudCreates

CreateSpec == CreateInit /\ [][CreateNext]_vars

----------------------------------------------------------------------------
(* The sizes of Drive::remove_bsu on a large filesystem *)

ShrinkFrame == /\ UNCHANGED <<cfg, pv_overhead, target, pc, kind, result, all_bsu, vols,
                              lvm, fs, mount_dir, rm, hist, faults, links, host, poll>>
               /\ UNCHANGED limVars
               /\ UNCHANGED workVars

\* let free_space_bytes = fs::available_bytes(); if free_space_bytes < bsu.size_bytes
\* { return Err }
ShrinkCheck ==
  /\ calc.step = "called"
  /\ calc' = [calc EXCEPT !.step = IF calc.available < calc.bsu_size
                                     THEN "refused" ELSE "passed"]
  /\ ShrinkFrame

\* ideal_size_bytes(), fs_size_bytes - bsu.size_bytes and their minimum, which is the
\* size given to fs::resize and to lvm::lv_reduce.
ShrinkSizes ==
  /\ calc.step = "passed"
  /\ LET ideal_size_bytes_ == ideal_size_bytes_f32(calc.used, calc.size)
         largest_possible_new_fs_size == calc.size - calc.bsu_size
     IN calc' = [calc EXCEPT !.step = "sized",
                             !.new_fs_size_bytes =
                                Min2(largest_possible_new_fs_size, ideal_size_bytes_)]
  /\ ShrinkFrame

\* remove_bsu is called on a volume of 6 or 10 GiB of a filesystem holding about 64 GiB
\* of data, with about the volume's size available and used + available <= size; the
\* percents of the drive are multiples of 25.
ShrinkInit ==
  /\ \E mn \in {25, 50, 75, 100}, mx \in {25, 50, 75, 100} :
        cfg = [(CHOOSE c \in Configs : c.max_bsu_count = 3)
                 EXCEPT !.min_used_space_perc = mn, !.max_used_space_perc = mx]
  /\ pv_overhead = 0
  /\ target = "online"
  /\ kind = "online"
  /\ pc = "rm_check"
  /\ result = "none"
  /\ all_bsu = <<>>
  /\ vols = [i \in VolIds |-> NoVol]
  /\ lvm = NoLvm
  /\ fs = NoFs
  /\ mount_dir = FALSE
  /\ rm = NoRm
  /\ hist = HistNone
  /\ faults = 0
  /\ links = NoLinks
  /\ host = NoMoves
  /\ poll = NoPoll
  /\ \E u \in 0..MaxExtra, g \in {6, 10}, a \in {-1, 0, 1}, reserved \in {0, 1} :
        calc = [step |-> "called",
                used |-> 16777215 + u,
                available |-> g * BlocksPerGib + a,
                size |-> 16777215 + u + g * BlocksPerGib + a + reserved,
                bsu_size |-> g * BlocksPerGib,
                new_fs_size_bytes |-> 0]
  /\ LimiterIdle
  /\ WorkersIdle

ShrinkNext ==
  \/ ShrinkCheck
  \/ ShrinkSizes

ShrinkSpec == ShrinkInit /\ [][ShrinkNext]_vars

----------------------------------------------------------------------------
(* while !is_fs_formated() { fs_format() } on the bytes of the LV's device *)

\* is_fs_formated: File::open, one read() into the buffer, which returns how many
\* bytes it has put there: at least one, at most the buffer's length.
FormatRead ==
  /\ calc.step = "read"
  /\ \E n \in 1..HeaderLen :
        calc' = [calc EXCEPT !.step = "tested", !.n = n,
                             !.ret = device_seems_formated(calc.device, n)]
  /\ ShrinkFrame

\* The loop ends when is_fs_formated is true, else fs_format runs mkfs.btrfs.
FormatTested ==
  /\ calc.step = "tested"
  /\ calc' = [calc EXCEPT !.step = IF calc.ret THEN "formated" ELSE "mkfs"]
  /\ ShrinkFrame

\* mkfs.btrfs writes its superblocks, the first one in the first megabyte, and the
\* loop tests the device again; or it fails and the tick ends.
FormatMkfs ==
  /\ calc.step = "mkfs"
  /\ \/ calc' = [calc EXCEPT !.step = "read", !.device = [k \in 1..HeaderLen |-> 1]]
     \/ calc' = [calc EXCEPT !.step = "failed"]
  /\ ShrinkFrame

FormatInit ==
  /\ cfg = CHOOSE c \in Configs : c.max_bsu_count = 3
  /\ pv_overhead = 0
  /\ target = "online"
  /\ kind = "online"
  /\ pc = "on_format"
  /\ result = "none"
  /\ all_bsu = <<>>
  /\ vols = [i \in VolIds |-> NoVol]
  /\ lvm = NoLvm
  /\ fs = NoFs
  /\ mount_dir = FALSE
  /\ rm = NoRm
  /\ hist = HistNone
  /\ faults = 0
  /\ links = NoLinks
  /\ host = NoMoves
  /\ poll = NoPoll
  /\ \E device \in [1..HeaderLen -> {0, 1}] :
        calc = [step |-> "read", device |-> device, n |-> 0, ret |-> FALSE]
  /\ LimiterIdle
  /\ WorkersIdle

FormatNext ==
  \/ FormatRead
  \/ FormatTested
  \/ FormatMkfs

FormatSpec == FormatInit /\ [][FormatNext]_vars

----------------------------------------------------------------------------
(* The sizes create_larger_bsu and create_smaller_bsu ask for *)

ScalePercs == {20, 53, 84}

ScaleSizes == 1..MaxGib \cup {MAX_BSU_SIZE_GIB - k : k \in 0..2}

\* create_larger_bsu up to its call of Bsu::create_gib: final_bsu_size.
ScaleLarger ==
  /\ calc.step = "scale"
  /\ calc' = [calc EXCEPT !.step = "larger", !.bsu_size = create_larger_bsu(all_bsu)]
  /\ ShrinkFrame

\* create_smaller_bsu up to its call of Bsu::create_gib: final_bsu_size.
ScaleSmaller ==
  /\ calc.step = "scale"
  /\ calc' = [calc EXCEPT !.step = "smaller", !.bsu_size = create_smaller_bsu(all_bsu)]
  /\ ShrinkFrame

\* A drive of one or two volumes, none smaller than initial_size_gib.
ScaleInit ==
  /\ \E perc \in ScalePercs, initial \in {6, 10} :
        cfg = [(CHOOSE c \in Configs : c.max_bsu_count = 3)
                 EXCEPT !.disk_scale_factor_perc = perc, !.initial_size_gib = initial,
                        !.max_total_size_gib = None]
  /\ pv_overhead = 0
  /\ target = "online"
  /\ kind = "online"
  /\ pc = "on_low"
  /\ result = "none"
  /\ \E x \in ScaleSizes, y \in {0, 10, MAX_BSU_SIZE_GIB} :
        /\ x >= cfg.initial_size_gib
        /\ vols = [i \in VolIds |->
                     IF i = 1 \/ (i = 2 /\ y # 0)
                     THEN [exists |-> TRUE, size |-> IF i = 1 THEN x ELSE y, vm |-> "this",
                           dev |-> i, pv |-> "vg", alloc |-> TRUE]
                     ELSE NoVol]
  /\ all_bsu = fetch_drive(vols)
  /\ lvm = NoLvm
  /\ fs = NoFs
  /\ mount_dir = FALSE
  /\ rm = NoRm
  /\ hist = HistNone
  /\ faults = 0
  /\ links = NoLinks
  /\ host = NoMoves
  /\ poll = NoPoll
  /\ calc = [NoCalc EXCEPT !.step = "scale"]
  /\ LimiterIdle
  /\ WorkersIdle

ScaleNext ==
  \/ ScaleLarger
  \/ ScaleSmaller

ScaleSpec == ScaleInit /\ [][ScaleNext]_vars

----------------------------------------------------------------------------
(* Bsu::multiple_attach, one link request at a time *)

\* One iteration of multiple_attach's loop in worker w: the device name is chosen from
\* what the host shows now and link_volume is called with it; the call returns when the
\* cloud has taken the request.
LinkVolume(w) ==
  /\ links.todo[w] # <<>>
  /\ LET i == Head(links.todo[w])
         d == find_next_available_device(vols)
     IN links' = [links EXCEPT !.todo[w] = Tail(@), !.req[i] = d]
  /\ UNCHANGED <<cfg, pv_overhead, target, pc, kind, result, all_bsu, vols, lvm, fs,
                 mount_dir, rm, hist, faults, host, calc, poll>>
  /\ UNCHANGED limVars
  /\ UNCHANGED workVars

\* The cloud carries out the request for volume i: the device shows up on the host under
\* the requested name, unless that name has been taken meanwhile.
DeviceAppears(i) ==
  /\ links.req[i] # 0
  /\ links' = [links EXCEPT !.req[i] = 0]
  /\ vols' = IF links.req[i] \in HostDevs(vols)
                THEN vols
                ELSE [vols EXCEPT ![i].vm = "this", ![i].dev = links.req[i]]
  /\ UNCHANGED <<cfg, pv_overhead, target, pc, kind, result, all_bsu, lvm, fs,
                 mount_dir, rm, hist, faults, host, calc, poll>>
  /\ UNCHANGED limVars
  /\ UNCHANGED workVars

\* Every volume exists; those in no worker's list are attached already, the others are
\* the unattached volumes of the workers' drives, each list in the order of the ids.
AttachInit ==
  /\ cfg = CHOOSE c \in Configs : c.max_bsu_count = 3
  /\ pv_overhead = 0
  /\ target = "online"
  /\ kind = "online"
  /\ pc = "on_attach"
  /\ result = "none"
  /\ all_bsu = <<>>
  /\ lvm = NoLvm
  /\ fs = NoFs
  /\ mount_dir = FALSE
  /\ rm = NoRm
  /\ hist = HistNone
  /\ faults = 0
  /\ host = NoMoves
  /\ calc = NoCalc
  /\ poll = NoPoll
  /\ LimiterIdle
  /\ WorkersIdle
  /\ \E own \in [VolIds -> {0} \cup Workers] :
        /\ vols = [i \in VolIds |->
                     [exists |-> TRUE, size |-> cfg.initial_size_gib,
                      vm |-> IF own[i] = 0 THEN "this" ELSE "none",
                      dev |-> IF own[i] = 0 THEN i ELSE 0,
                      pv |-> "none", alloc |-> FALSE]]
        /\ links = [todo |-> [w \in Workers |-> SortedSeq({i \in VolIds : own[i] = w})],
                    req |-> [i \in VolIds |-> 0]]

AttachNext ==
  \/ \E w \in Workers : LinkVolume(w)
  \/ \E i \in VolIds : DeviceAppears(i)

AttachSpec == AttachInit /\ [][AttachNext]_vars

----------------------------------------------------------------------------
(* api_limiter(), called by every worker before each cloud request *)

\* Instant::seconds(): the whole seconds of an instant.
seconds(t) == t \div TicksPerSec

\* let mut limiter = API_LIMITER.lock(); time_left is computed and the sleep begins.
LLock(w) ==
  LET waited_time_s == seconds(now) - seconds(limiter)
      time_left == Max2(API_LIMITER_S - waited_time_s, 0)
  IN /\ wpc[w] = "idle"
     /\ lock = 0
     /\ lock' = w
     /\ wake' = [wake EXCEPT ![w] = now + time_left * TicksPerSec]
     /\ wpc' = [wpc EXCEPT ![w] = "sleep"]
     /\ UNCHANGED <<now, limiter, calls, cloud_config>>
     /\ UNCHANGED driveVars
     /\ UNCHANGED workVars

\* The sleep is over: *limiter = Instant::now(), the guard is dropped and the caller
\* sends its request.
LRelease(w) ==
  /\ wpc[w] = "sleep"
  /\ now >= wake[w]
  /\ limiter' = now
  /\ lock' = 0
  /\ wpc' = [wpc EXCEPT ![w] = "idle"]
  /\ calls' = IF calls = <<>> THEN <<now>> ELSE <<calls[Len(calls)], now>>
  /\ UNCHANGED <<now, wake, cloud_config>>
  /\ UNCHANGED driveVars
  /\ UNCHANGED workVars

LTick ==
  /\ now < MaxTime
  /\ now' = now + 1
  /\ UNCHANGED <<limiter, lock, wpc, wake, calls, cloud_config>>
  /\ UNCHANGED driveVars
  /\ UNCHANGED workVars

LNext ==
  \/ \E w \in Workers : LLock(w)
  \/ \E w \in Workers : LRelease(w)
  \/ LTick

LimiterSpec == Init /\ [][LNext]_vars

----------------------------------------------------------------------------
(* One cloud request of a client operation, with the locks it takes *)

\* api_limiter() returns: *limiter = Instant::now() and the MutexGuard is dropped at
\* the end of the function; the caller goes on to its request statement.
CallLimited(w) ==
  /\ wpc[w] = "sleep"
  /\ now >= wake[w]
  /\ limiter' = now
  /\ lock' = 0
  /\ wpc' = [wpc EXCEPT ![w] = "send"]
  /\ UNCHANGED <<now, wake, calls, cloud_config>>
  /\ UNCHANGED driveVars
  /\ UNCHANGED workVars

\* let response = read_volumes(&*CLOUD_CONFIG.read()?, Some(request)): the arguments are
\* evaluated, which takes a read guard of CLOUD_CONFIG as a temporary of the statement,
\* and the HTTP request is sent.
CallSend(w) ==
  /\ wpc[w] = "send"
  /\ cloud_config' = cloud_config \cup {w}
  /\ wpc' = [wpc EXCEPT ![w] = "request"]
  /\ calls' = IF calls = <<>> THEN <<now>> ELSE <<calls[Len(calls)], now>>
  /\ UNCHANGED <<now, limiter, lock, wake>>
  /\ UNCHANGED driveVars
  /\ UNCHANGED workVars

\* The response is there and the statement ends: its temporaries are dropped.
CallReceive(w) ==
  /\ wpc[w] = "request"
  /\ cloud_config' = cloud_config \ {w}
  /\ wpc' = [wpc EXCEPT ![w] = "idle"]
  /\ UNCHANGED <<now, limiter, lock, wake, calls>>
  /\ UNCHANGED driveVars
  /\ UNCHANGED workVars

CallNext ==
  \/ \E w \in Workers : LLock(w)
  \/ \E w \in Workers : CallLimited(w)
  \/ \E w \in Workers : CallSend(w)
  \/ \E w \in Workers : CallReceive(w)
  \/ LTick

CallInit ==
  /\ Init
  /\ cfg = CHOOSE c \in Configs : c.max_bsu_count = 3
  /\ pv_overhead = 0
  /\ target = "online"

CallSpec == CallInit /\ [][CallNext]_vars

----------------------------------------------------------------------------
(* Drives::run, Drive::run and Drives::stop *)

\* The steps that may follow step p of a reconcile of kind k; "idle" is the return.
Flow(p, k) ==
  CASE p = "on_resume" -> {"on_fetch"}
    [] p = "on_fetch" -> {"on_attach"}
    [] p = "on_attach" -> {"on_attach", "on_bootstrap"}
    [] p = "on_bootstrap" -> {"on_resume", "on_pvinit"}
    [] p = "on_pvinit" -> {"on_pvinit", "on_vgcreate"}
    [] p = "on_vgcreate" -> {"on_vgcreate", "on_vgextend"}
    [] p = "on_vgextend" -> {"on_vgextend", "on_lvcreate"}
    [] p = "on_lvcreate" -> {"on_lvcreate", "on_lvextend"}
    [] p = "on_lvextend" -> {"on_format"}
    [] p = "on_format" -> {"on_format", "on_mkdir"}
    [] p = "on_mkdir" -> {"on_mkdir", "on_mount"}
    [] p = "on_mount" -> {"on_mount", "on_fsextend"}
    [] p = "on_fsextend" -> {"on_fsextend", "on_cap"}
    [] p = "on_cap" -> {"rm_check", "on_low"}
    [] p = "on_low" -> {"on_high", "on_resume", "idle"}
    [] p = "on_high" -> {"rm_check", "on_resume", "idle"}
    [] p = "rm_check" -> {"rm_resize"}
    [] p = "rm_resize" -> {"rm_lvreduce"}
    [] p = "rm_lvreduce" -> {"rm_pvmove"}
    [] p = "rm_pvmove" -> {"rm_vgreduce"}
    [] p = "rm_vgreduce" -> {"rm_pvremove"}
    [] p = "rm_pvremove" -> {"rm_lvextend"}
    [] p = "rm_lvextend" -> {"rm_fsextend"}
    [] p = "rm_fsextend" -> {"rm_detach"}
    [] p = "rm_detach" -> {"rm_delete"}
    [] p = "rm_delete" -> {"on_resume"}
    [] p = "off_umount" -> {"off_umount", "off_fetch"}
    [] p = "off_fetch" -> {"off_detach", IF k = "delete" THEN "del_all" ELSE "idle"}
    [] p = "off_detach" -> {"off_detach", IF k = "delete" THEN "del_all" ELSE "idle"}
    [] p = "del_all" -> {"idle"}

\* A faulty Checked: early_exit() is called nowhere in a reconcile.
NeverChecked(p) == FALSE

\* early_exit() is called before step p: everywhere in the three reconciles but inside
\* remove_bsu and before delete_all_bsu.
Checked(p) == ~InRemove(p) /\ p # "del_all"

\* The steps that run an external command or make a cloud call whatever they find.
Calls == {"on_resume", "on_fetch", "on_pvinit", "on_vgcreate", "on_vgextend", "on_lvcreate",
          "on_lvextend", "on_fsextend", "rm_resize", "rm_lvreduce", "rm_pvmove",
          "rm_vgreduce", "rm_pvremove", "rm_lvextend", "rm_fsextend", "rm_detach",
          "rm_delete", "off_fetch", "off_detach"}

InReconcile(p) == p \notin {"cooldown", "exited"}

\* drives_cmd.insert(name, sender): the sender kept for a name is the last one inserted.
Owner(n) == CHOOSE i \in Workers : /\ wk[i].name = n
                                   /\ \A j \in Workers : wk[j].name = n => j <= i

\* Drive::early_exit by a worker in state r: with Stop in the channel the exit flag is
\* set and the error returned takes the worker out of its reconcile and of Drive::run's
\* loop; with an empty channel nothing happens.
early_exit(r) ==
  IF r.chan = 1 THEN [r EXCEPT !.chan = 0, !.exit = TRUE, !.pos = "exited"] ELSE r

WFrame == /\ UNCHANGED driveVars
          /\ UNCHANGED limVars

\* The cooldown loop: sleep 10 ms, early_exit(), continue.
WSleep(w) ==
  /\ wk[w].pos = "cooldown"
  /\ wk' = [wk EXCEPT ![w] = early_exit(@)]
  /\ UNCHANGED sup
  /\ WFrame

\* The cooldown is over: reconcile() is called and dispatches on the target.
WReconcile(w) ==
  /\ wk[w].pos = "cooldown"
  /\ wk' = [wk EXCEPT ![w].pos = IF wk[w].target = "online" THEN "on_resume" ELSE "off_umount"]
  /\ UNCHANGED sup
  /\ WFrame

\* early_exit() finds Stop in the channel: the reconcile returns the error and
\* Drive::run breaks out of its loop.
WEarlyExit(w) ==
  /\ InReconcile(wk[w].pos)
  /\ Checked(wk[w].pos)
  /\ wk[w].chan = 1
  /\ wk' = [wk EXCEPT ![w] = early_exit(@)]
  /\ UNCHANGED sup
  /\ WFrame

\* One step of the reconcile completes: it goes on with a next step, returns, or fails.
WStep(w) ==
  /\ InReconcile(wk[w].pos)
  /\ ~(Checked(wk[w].pos) /\ wk[w].chan = 1)
  /\ \E q \in Flow(wk[w].pos, wk[w].target) \cup {"idle"} :
        wk' = [wk EXCEPT ![w].pos = IF q = "idle" THEN "cooldown" ELSE q,
                         ![w].since = IF wk[w].sent /\ wk[w].pos \in Calls
                                      THEN Min2(@ + 1, MaxSince) ELSE @]
  /\ UNCHANGED sup
  /\ WFrame

\* Drives::stop is called.
SupStop ==
  /\ sup.pc = "run"
  /\ sup' = [pc |-> "send", tosend |-> {wk[w].name : w \in Workers}]
  /\ UNCHANGED wk
  /\ WFrame

\* sender.send(DriveCmd::Stop)? for one entry of drives_cmd.
SupSend ==
  /\ sup.pc = "send"
  /\ \E n \in sup.tosend :
        IF wk[Owner(n)].pos = "exited"
        THEN sup' = [pc |-> "failed", tosend |-> {}] /\ UNCHANGED wk
        ELSE /\ wk' = [wk EXCEPT ![Owner(n)].chan = 1, ![Owner(n)].sent = TRUE]
             /\ sup' = [sup EXCEPT !.tosend = @ \ {n}]
  /\ WFrame

\* Every entry has been sent to: drives_threads.join() begins.
SupJoin ==
  /\ sup.pc = "send"
  /\ sup.tosend = {}
  /\ sup' = [sup EXCEPT !.pc = "join"]
  /\ UNCHANGED wk
  /\ WFrame

\* join() returns when no worker is left running, and stop() returns Ok.
SupReturn ==
  /\ sup.pc = "join"
  /\ \A w \in Workers : wk[w].pos = "exited"
  /\ sup' = [sup EXCEPT !.pc = "done"]
  /\ UNCHANGED wk
  /\ WFrame

\* The configuration's drives: their names and their targets.
WorkersInit ==
  /\ cfg = CHOOSE c \in Configs : c.max_bsu_count = 3
  /\ pv_overhead = 0
  /\ target = "online"
  /\ kind = "none"
  /\ pc = "idle"
  /\ result = "none"
  /\ all_bsu = <<>>
  /\ vols = [i \in VolIds |-> NoVol]
  /\ lvm = NoLvm
  /\ fs = NoFs
  /\ mount_dir = FALSE
  /\ rm = NoRm
  /\ hist = HistNone
  /\ faults = 0
  /\ links = NoLinks
  /\ host = NoMoves
  /\ calc = NoCalc
  /\ poll = NoPoll
  /\ LimiterIdle
  /\ sup = [pc |-> "run", tosend |-> {}]
  /\ \E names \in [Workers -> Workers], targets \in [Workers -> Targets] :
        wk = [w \in Workers |-> Worker(names[w], targets[w])]

WNext ==
  \/ \E w \in Workers : WSleep(w)
  \/ \E w \in Workers : WReconcile(w)
  \/ \E w \in Workers : WEarlyExit(w)
  \/ \E w \in Workers : WStep(w)
  \/ SupStop
  \/ SupSend
  \/ SupJoin
  \/ SupReturn

WorkersSpec == WorkersInit /\ [][WNext]_vars

\* Every worker thread and the thread in stop() keep running.
WorkersFair ==
  /\ \A w \in Workers : WF_vars(WSleep(w) \/ WEarlyExit(w) \/ WStep(w))
  /\ WF_vars(SupSend)
  /\ WF_vars(SupJoin)
  /\ WF_vars(SupReturn)

WorkersLive == WorkersSpec /\ WorkersFair

----------------------------------------------------------------------------
(* Drive::run against the clock *)

\* The test of Drive::run's loop has failed:
\* Instant::now().seconds() - self.last_reconcile.seconds() > RECONCILE_COOLDOWN_S
CooldownOver(w) == seconds(now) - seconds(wk[w].last_reconcile) > RECONCILE_COOLDOWN_S

RunFrame == /\ UNCHANGED driveVars
            /\ UNCHANGED <<limiter, lock, wpc, wake, calls, cloud_config>>
            /\ UNCHANGED sup

\* sleep(10 ms); if self.early_exit().is_err() { break }; continue
RunSleep(w) ==
  /\ wk[w].pos = "cooldown"
  /\ ~CooldownOver(w)
  /\ wk' = [wk EXCEPT ![w] = early_exit(@)]
  /\ UNCHANGED now
  /\ RunFrame

\* self.reconcile() is called.
RunReconcile(w) ==
  /\ wk[w].pos = "cooldown"
  /\ CooldownOver(w)
  /\ wk' = [wk EXCEPT ![w].pos = "reconcile"]
  /\ UNCHANGED now
  /\ RunFrame

\* reconcile() returns Ok, an error of a step, or the error of an early_exit() that has
\* found Stop; self.last_reconcile = Instant::now(); if self.exit { break }
RunReturn(w) ==
  /\ wk[w].pos = "reconcile"
  /\ \E r \in {"Ok", "Err", "Stop"} :
        /\ r = "Stop" => wk[w].chan = 1
        /\ LET exit == wk[w].exit \/ r = "Stop"
           IN wk' = [wk EXCEPT ![w].res = r,
                               ![w].chan = IF r = "Stop" THEN 0 ELSE @,
                               ![w].exit = exit,
                               ![w].last_reconcile = now,
                               ![w].runs = Min2(@ + 1, 2),
                               ![w].pos = IF exit THEN "exited" ELSE "cooldown"]
  /\ UNCHANGED now
  /\ RunFrame

\* Drives::stop sends Stop to the worker.
RunStop(w) ==
  /\ ~wk[w].sent
  /\ wk[w].pos # "exited"
  /\ wk' = [wk EXCEPT ![w].chan = 1, ![w].sent = TRUE]
  /\ UNCHANGED now
  /\ RunFrame

RunTick ==
  /\ now < MaxClock
  /\ now' = now + 1
  /\ UNCHANGED wk
  /\ RunFrame

RunNext ==
  \/ RunSleep(1)
  \/ RunReconcile(1)
  \/ RunReturn(1)
  \/ RunStop(1)
  \/ RunTick

RunInit ==
  /\ Init
  /\ cfg = CHOOSE c \in Configs : c.max_bsu_count = 3
  /\ pv_overhead = 0
  /\ target = "online"

\* The worker's thread keeps running and time passes.
RunSpec == RunInit /\ [][RunNext]_vars /\ WF_vars(RunReconcile(1)) /\ WF_vars(RunTick)

----------------------------------------------------------------------------
(* The pvmove commands of several drives on one host *)

ResumeFrame == /\ UNCHANGED <<cfg, pv_overhead, target, pc, kind, result, all_bsu, vols,
                              lvm, fs, mount_dir, rm, hist, faults, links, calc, poll>>
               /\ UNCHANGED limVars
               /\ UNCHANGED sup

\* Drive::run calls reconcile(); reconcile_online starts with crash_resume.
ResumeStart(w) ==
  /\ wk[w].pos = "cooldown"
  /\ wk' = [wk EXCEPT ![w].pos = "on_resume"]
  /\ UNCHANGED host
  /\ ResumeFrame

\* crash_resume: worker w runs pvmove with no argument.
ResumeCrashResume(w) ==
  /\ wk[w].pos = "on_resume"
  /\ host' = [moves |-> ResumeMoves(host.moves),
              last |-> [by |-> w, on |-> {d \in Workers : host.moves[d] = "cut"}]]
  /\ wk' = [wk EXCEPT ![w].pos = "on_fetch"]
  /\ ResumeFrame

\* The staircase of worker w reaches remove_bsu and starts pvmove on a PV of its VG.
ResumePvMove(w) ==
  /\ wk[w].pos = "on_fetch"
  /\ host.moves[w] = "none"
  /\ host' = [moves |-> [host.moves EXCEPT ![w] = "running"],
              last |-> [by |-> w, on |-> {w}]]
  /\ wk' = [wk EXCEPT ![w].pos = "rm_pvmove"]
  /\ ResumeFrame

\* That pvmove comes to its end and the reconcile returns.
ResumePvMoveDone(w) ==
  /\ wk[w].pos = "rm_pvmove"
  /\ host' = [host EXCEPT !.moves[w] = "none"]
  /\ wk' = [wk EXCEPT ![w].pos = "cooldown"]
  /\ ResumeFrame

\* The staircase of worker w returns without removing a volume.
ResumeReturn(w) ==
  /\ wk[w].pos = "on_fetch"
  /\ wk' = [wk EXCEPT ![w].pos = "cooldown"]
  /\ UNCHANGED host
  /\ ResumeFrame

\* The daemon is killed and started again: a pvmove that was running is left
\* interrupted in its VG's metadata, and every worker starts afresh.
ResumeKill ==
  /\ host' = [host EXCEPT !.moves = [d \in Workers |->
                                       IF @[d] = "running" THEN "cut" ELSE @[d]]]
  /\ wk' = [w \in Workers |-> [wk[w] EXCEPT !.pos = "cooldown"]]
  /\ ResumeFrame

ResumeInit ==
  /\ Init
  /\ cfg = CHOOSE c \in Configs : c.max_bsu_count = 3
  /\ pv_overhead = 0
  /\ target = "online"

ResumeNext ==
  \/ \E w \in Workers : ResumeStart(w)
  \/ \E w \in Workers : ResumeCrashResume(w)
  \/ \E w \in Workers : ResumePvMove(w)
  \/ \E w \in Workers : ResumePvMoveDone(w)
  \/ \E w \in Workers : ResumeReturn(w)
  \/ ResumeKill

ResumeSpec == ResumeInit /\ [][ResumeNext]_vars

----------------------------------------------------------------------------
(* Properties of the drive worker (Spec) *)

\* The last reconcile was of this kind, returned Ok, and nothing has happened since.
Returned(k) == pc = "idle" /\ result = "Ok" /\ kind = k

ListIds(list) == {list[k].id : k \in 1..Len(list)}

MaxTotal == CHOOSE m \in cfg.max_total_size_gib : TRUE

Mounted == fs.mounted /\ mount_dir /\ lvm.lv /\ lvm.active

\* What reconcile_online leaves of the last fetched list: attached here, in the VG.
ListInVg ==
  /\ ListIds(all_bsu) = Existing(vols)
  /\ \A i \in ListIds(all_bsu) : vols[i].vm = "this" /\ vols[i].dev # 0 /\ vols[i].pv = "vg"

\* C1 as stated: whenever reconcile_online returns Ok the LV is mounted at mount_path,
\* every volume of the last fetched list is attached to this VM and is a PV of the VG,
\* and fs_size = lv_size = vg_size = the sum of the owned volume sizes.
C1_SizesEqualVolumeSum ==
  Returned("online") =>
    /\ Mounted
    /\ ListInVg
    /\ size_bytes(fs) = get_lv_size_bytes(lvm)
    /\ get_lv_size_bytes(lvm) = get_vg_size_bytes(vols)
    /\ get_vg_size_bytes(vols) = SumBytes(all_bsu)

\* C1 amended: whenever reconcile_online returns Ok the LV is mounted at mount_path,
\* every volume of the last fetched list is attached to this VM and is a PV of the VG,
\* fs_size = lv_size = vg_size, and vg_size is the sum of the sizes LVM reports for
\* those PVs, which is at most the sum of the owned volume sizes.
C1_OnlineOk ==
  Returned("online") =>
    /\ Mounted
    /\ ListInVg
    /\ size_bytes(fs) = get_lv_size_bytes(lvm)
    /\ get_lv_size_bytes(lvm) = get_vg_size_bytes(vols)
    /\ get_vg_size_bytes(vols) = SumOver([i \in VolIds |-> PvSize(vols, i)], ListIds(all_bsu))
    /\ get_vg_size_bytes(vols) <= SumBytes(all_bsu)

C1_Witness ==
  /\ Returned("online")
  /\ Cardinality(Existing(vols)) = 2
  /\ get_vg_size_bytes(vols) < SumBytes(all_bsu)
  /\ "create" \in hist.changed

\* C2 as stated: whenever reconcile_offline returns Ok the drive is not mounted and no
\* owned volume is attached to this VM.
C2_OfflineOk ==
  Returned("offline") => ~fs.mounted /\ Present(vols) = {}

\* C3: after reconcile_delete returns Ok, fetching the drive's volumes returns none.
C3_DeleteOk ==
  Returned("delete") => bsu_count(fetch_drive(vols)) = 0

C3_Witness ==
  /\ Returned("delete")
  /\ Len(hist.ev.before) = 3
  /\ "detach" \in hist.changed
  /\ "delete" \in hist.changed

\* C5: after an online reconcile that returns Ok the drive has at most max_bsu_count
\* volumes.
C5_CountBounded ==
  Returned("online") => bsu_count(fetch_drive(vols)) <= cfg.max_bsu_count

C5_Witness ==
  /\ Returned("online")
  /\ hist.ev.op = "smallest"
  /\ bsu_count(fetch_drive(vols)) = cfg.max_bsu_count - 1

LargestGib == CHOOSE g \in {vols[i].size : i \in Existing(vols)} :
                 \A i \in Existing(vols) : vols[i].size <= g

\* C6: with max_total_size_gib set, a volume the low-space branch has created was
\* created while the total was under max_total_size_gib, and after an online reconcile
\* that returns Ok the sum of the volume sizes is at most max_total_size_gib plus the
\* size of one volume.
C6_TotalBounded ==
  cfg.max_total_size_gib # None =>
    /\ hist.ev.op \in {"larger", "smaller"} =>
         bytes_to_gib_rounded(SumOver([k \in 1..Len(hist.ev.before) |->
              gib_to_bytes(hist.ev.before[k])], 1..Len(hist.ev.before))) < MaxTotal
    /\ Returned("online") => TotalGib(vols) <= MaxTotal + LargestGib

C6_Witness ==
  /\ cfg.max_total_size_gib # None
  /\ Returned("online")
  /\ hist.ev.op # "none"
  /\ TotalGib(vols) > MaxTotal

\* What the policy steps saw when the tick first reached them.
Pol == CHOOSE o \in hist.pol : TRUE

InClosedBand(o) == /\ o.used * 100 >= cfg.min_used_space_perc * o.size
                   /\ o.used * 100 <= cfg.max_used_space_perc * o.size

InOpenBand(o) == /\ o.used * 100 > cfg.min_used_space_perc * o.size
                 /\ o.used * 100 < cfg.max_used_space_perc * o.size

\* C7 as stated: an online tick that runs with used_fraction in [min, max] and more
\* than one volume creates, removes, attaches, detaches and deletes nothing.
C7_ClosedBandNoChange ==
  (kind = "online" /\ hist.pol # {} /\ InClosedBand(Pol) /\ Pol.count > 1) =>
     hist.changed = {}

\* C7 amended: an online tick whose policy steps first run with used_fraction strictly
\* between min and max and with more than one and fewer than max_bsu_count volumes
\* goes through the cap, low-space and high-space steps to Ok: it creates, removes,
\* detaches and deletes nothing (all it may have done before is attach volumes).
C7_OpenBandNoChange ==
  (kind = "online" /\ hist.pol # {} /\ InOpenBand(Pol) /\ Pol.count > 1
     /\ Pol.count < cfg.max_bsu_count) =>
     /\ hist.changed \subseteq {"attach"}
     /\ pc \in {"on_low", "on_high", "idle"}

C7_Witness ==
  /\ Returned("online")
  /\ hist.pol # {}
  /\ InOpenBand(Pol)
  /\ Pol.count > 1
  /\ Pol.count < cfg.max_bsu_count

\* C8: a second online reconcile that starts right after one that returned Ok, with
\* nothing changed in between, leaves the volumes, their attachments, the PV/VG/LV
\* layout, the sizes and the mount as they were.
C8_SecondRunNoMutation ==
  hist.prev_ok => hist.world0 = {World}

C8_Witness ==
  /\ hist.prev_ok
  /\ Returned("online")
  /\ Cardinality(Existing(vols)) = 2

\* C9: an online reconcile that starts with no volume and returns Ok leaves exactly
\* one volume, of initial_size_gib, attached to this VM, in the VG, with the LV
\* formatted and mounted at mount_path.
C9_ColdStart ==
  (Returned("online") /\ hist.start = 0) =>
    /\ Cardinality(Existing(vols)) = 1
    /\ \A i \in Existing(vols) : /\ vols[i].size = cfg.initial_size_gib
                                 /\ vols[i].vm = "this"
                                 /\ vols[i].pv = "vg"
    /\ fs.formatted
    /\ Mounted

C9_Witness ==
  /\ Returned("online")
  /\ hist.start = 0
  /\ Cardinality(Existing(vols)) = 1
  /\ "create" \in hist.changed

\* The low-space step sees one volume of initial_size_gib and max_bsu_count = 10.
SingleInitialLow ==
  /\ pc = "on_low"
  /\ bsu_count(all_bsu) = 1
  /\ all_bsu[1].size_gib = cfg.initial_size_gib
  /\ cfg.max_bsu_count = 10
  /\ is_drive_low_space_left(fs)

ScaledUp == CeilDiv(cfg.initial_size_gib * (100 + cfg.disk_scale_factor_perc), 100)

SecondLargerCreated ==
  /\ Cardinality(Existing(vols')) = 2
  /\ \E i \in Existing(vols') \ Existing(vols) : vols'[i].size = ScaledUp
  /\ \A i \in Existing(vols) : vols'[i] = vols[i]

\* C10 as stated: with a single volume of initial_size_gib, max_bsu_count = 10 and
\* used_fraction >= max_used_space_perc, the low-space step, unless it fails, creates
\* a second volume of ceil(initial_size_gib * (1 + scale_factor)) GiB.
C10_AlwaysCreatesLarger ==
  [][(SingleInitialLow /\ result' # "Err") => SecondLargerCreated]_vars

\* C10 amended: the same when max_total_size_gib is unset or above initial_size_gib.
C10_CreatesLarger ==
  [][(SingleInitialLow /\ result' # "Err" /\ ~is_max_space_reached(all_bsu))
        => SecondLargerCreated]_vars

C10_Witness ==
  /\ hist.ev = [op |-> "larger", size |-> 12, before |-> <<10>>]
  /\ pc = "on_resume"
  /\ {vols[i].size : i \in Existing(vols)} = {10, 12}
  /\ cfg.max_bsu_count = 10

SizeSet(v) == {v[i].size : i \in Existing(v)}

MaxSize(sizes) == CHOOSE g \in {sizes[k] : k \in 1..Len(sizes)} :
                     \A k \in 1..Len(sizes) : sizes[k] <= g

MinSize(sizes) == CHOOSE g \in {sizes[k] : k \in 1..Len(sizes)} :
                     \A k \in 1..Len(sizes) : sizes[k] >= g

\* used_fraction <= min_used_space_perc in what the policy steps first saw.
HighAtPolicy(o) == o.used * 100 <= cfg.min_used_space_perc * o.size

\* used_fraction >= max_used_space_perc in what the policy steps first saw.
LowAtPolicy(o) == o.used * 100 >= cfg.max_used_space_perc * o.size

\* remove_bsu has just completed: the volume is gone from the cloud and from the VG,
\* no PV is missing, and the filesystem and the LV fill the VG that is left.
RemoveCompleted ==
  /\ Cardinality(Existing(vols)) = Len(hist.ev.before) - 1
  /\ VgPvs(vols) = Existing(vols)
  /\ ~lvm.lost
  /\ size_bytes(fs) = get_lv_size_bytes(lvm)
  /\ get_lv_size_bytes(lvm) = get_vg_size_bytes(vols)

\* What follows from a tick whose first creation or deletion is the removal of the
\* largest volume.
LargestRemovedFirst ==
  /\ hist.first.op \in {"none", "largest"}
  /\ hist.first.op = "largest" => hist.first.size = MaxSize(hist.first.before)
  /\ (pc = "on_resume" /\ hist.ev.op = "largest") => RemoveCompleted
  /\ Returned("online") => hist.first.op = "largest"
  /\ (Returned("online") /\ hist.first.before = <<10, 12>>) =>
        Cardinality(Existing(vols)) = 1 /\ SizeSet(vols) = {10}

\* C11 as stated: an online tick that reaches the policy steps with more than one
\* volume and used_fraction <= min_used_space_perc removes a volume of maximal size
\* (filesystem and LV shrunk, PV out of the VG, volume detached and deleted), and from
\* 10 + 12 GiB it ends with exactly one 10 GiB volume.
C11_HighRemovesLargest ==
  (kind = "online" /\ hist.pol # {} /\ HighAtPolicy(Pol) /\ Pol.count > 1) =>
     LargestRemovedFirst

\* C11 amended: the same for a tick that reaches the policy steps with more than one
\* and fewer than max_bsu_count volumes, when the tick returns Ok.
C11_HighRemovesLargestUnderCap ==
  (kind = "online" /\ hist.pol # {} /\ HighAtPolicy(Pol) /\ Pol.count > 1
     /\ Pol.count < cfg.max_bsu_count) =>
     LargestRemovedFirst

\* The online invariant: the LV is mounted, every owned volume is attached to this VM
\* and is a PV of the VG, LV size = VG size and FS size = LV size.
OnlineInv ==
  /\ Mounted
  /\ ListInVg
  /\ size_bytes(fs) = get_lv_size_bytes(lvm)
  /\ get_lv_size_bytes(lvm) = get_vg_size_bytes(vols)

\* This tick is the online reconcile that follows an online reconcile cut at some step,
\* with nothing else in between, on a VG that misses no PV.
Resumes == hist.resumes # "none" /\ ~lvm.lost

LowCreated == hist.ev.op \in {"larger", "smaller"}

CountBefore == Len(hist.ev.before)

SmallestBefore == CHOOSE g \in {hist.ev.before[k] : k \in 1..CountBefore} :
                    \A k \in 1..CountBefore : g <= hist.ev.before[k]

\* C17 as stated: the low-space branch creates the smaller volume exactly when the
\* count is not max_bsu_count - 1 and the drive already holds a volume of at most
\* initial_size_gib.
C17_SmallerWhenContains ==
  LowCreated =>
    (hist.ev.op = "smaller" <=>
       (CountBefore # cfg.max_bsu_count - 1 /\ SmallestBefore <= cfg.initial_size_gib))

\* C17: the low-space branch creates the smaller volume exactly when the count is not
\* max_bsu_count - 1 and the drive holds no volume of at most initial_size_gib;
\* otherwise it creates the larger volume.
C17_SmallerWhenMissing ==
  LowCreated =>
    (hist.ev.op = "smaller" <=>
       (CountBefore # cfg.max_bsu_count - 1 /\ SmallestBefore > cfg.initial_size_gib))

\* The low-space branch has created a smaller volume.
C17_Witness ==
  /\ hist.ev.op = "smaller"
  /\ hist.ev.size <= cfg.initial_size_gib
  /\ CountBefore >= 1

\* C12 as stated, for the volumes that no other VM holds: reconcile_offline creates
\* and deletes no volume, the drive has as many volumes all along as when the tick
\* started, and when it returns Ok none of them is attached to this VM any more.
C12_OfflineKeepsVolumes ==
  (kind = "offline" /\ (pc # "idle" \/ result = "Ok")) =>
     /\ hist.changed \cap {"create", "delete"} = {}
     /\ Cardinality(Existing(vols)) = hist.start
     /\ Returned("offline") => \A i \in Existing(vols) : vols[i].vm # "this"

\* The policy steps first saw max_bsu_count volumes and low space.
LowAtCap == /\ kind = "online"
            /\ hist.pol # {}
            /\ Pol.count = cfg.max_bsu_count
            /\ LowAtPolicy(Pol)

\* C13 as stated: an online tick that reaches the policy steps with max_bsu_count
\* volumes and used_fraction >= max_used_space_perc removes the smallest volume and
\* creates no volume.
C13_RemovesThenStops ==
  LowAtCap =>
     /\ hist.first.op \in {"none", "smallest"}
     /\ Returned("online") => hist.first.op = "smallest"
     /\ "create" \notin hist.changed

\* C13 amended: the first volume such a tick creates or deletes is the removal of a
\* volume of minimal size, and the tick does not return Ok without it; the staircase
\* then starts again in the same tick, where the low-space branch runs: a tick that
\* returns Ok after that one removal alone has stopped at max_total_size_gib.
C13_RemovesSmallestFirst ==
  LowAtCap =>
     /\ hist.first.op \in {"none", "smallest"}
     /\ hist.first.op = "smallest" => hist.first.size = MinSize(hist.first.before)
     /\ (pc = "on_resume" /\ hist.ev.op = "smallest") => RemoveCompleted
     /\ Returned("online") =>
           /\ hist.first.op = "smallest"
           /\ hist.ev = hist.first => is_max_space_reached(all_bsu)

\* The growing volume is created in the tick that removed the smallest one.
C13_Witness ==
  /\ LowAtCap
  /\ hist.first.op = "smallest"
  /\ hist.ev.op = "larger"
  /\ pc = "on_resume"

C11_Witness ==
  /\ Returned("online")
  /\ HighAtPolicy(Pol)
  /\ Pol.used > 0
  /\ hist.first = [op |-> "largest", size |-> 12, before |-> <<10, 12>>]
  /\ SizeSet(vols) = {10}

\* The volumes of the list that have the minimal size.
MinimalIds(list) ==
  {list[k].id : k \in {j \in 1..Len(list) :
                         \A i \in 1..Len(list) : list[i].size_bytes >= list[j].size_bytes}}

\* C19: the cap step with len(volumes) >= max_bsu_count enters the removal of a volume
\* of minimal size, whatever the used fraction; the low-space and high-space branches
\* are evaluated only with fewer than max_bsu_count volumes; and the removal, once its
\* last step is done, has deleted that volume alone and starts the staircase again.
C19_CapRemovesSmallest ==
  /\ [](pc \in {"on_low", "on_high"} => bsu_count(all_bsu) < cfg.max_bsu_count)
  /\ [][(pc = "on_cap" /\ bsu_count(all_bsu) >= cfg.max_bsu_count /\ pc' # "idle") =>
          /\ pc' = "rm_check"
          /\ rm'.op = "smallest"
          /\ rm'.id \in MinimalIds(all_bsu)
          /\ vols' = vols]_vars
  /\ [][(pc = "rm_delete" /\ rm.op = "smallest" /\ pc' # "idle") =>
          /\ pc' = "on_resume"
          /\ Existing(vols') = Existing(vols) \ {rm.id}
          /\ rm.id \in MinimalIds(all_bsu)]_vars

\* The cap step has removed the smallest volume of a drive that was neither low nor
\* high on space, and the staircase starts again.
C19_Witness ==
  /\ pc = "on_resume"
  /\ hist.ev.op = "smallest"
  /\ hist.ev = hist.first
  /\ hist.ev.size = MinSize(hist.ev.before)
  /\ Len(hist.ev.before) >= cfg.max_bsu_count
  /\ \E o \in hist.pol : ~LowAtPolicy(o) /\ ~HighAtPolicy(o)

\* ceil(used_bytes / ((min + max) / 2)), brought into [initial_size_gib in bytes,
\* filesystem size in bytes], in whole GiB rounded up.
IdealGib ==
  LET ideal == CeilDiv(fs.used * 200, cfg.min_used_space_perc + cfg.max_used_space_perc)
      clamped == Min2(Max2(ideal, cfg.initial_size_gib * BytesPerGib), fs.size)
  IN CeilDiv(clamped, BytesPerGib)

C21_GuardFailsUnchanged ==
  [][(pc = "rm_check" /\ fs.size - fs.used < rm.size_bytes) =>
        /\ pc' = "idle"
        /\ result' = "Err"
        /\ World' = World]_vars

\* The cap step's removal has failed at the guard: the tick saw max_bsu_count volumes,
\* was cut by nothing else, and returned an error with nothing changed.
C21_Witness ==
  /\ pc = "idle"
  /\ result = "Err"
  /\ kind = "online"
  /\ hist.cut = "none"
  /\ hist.pol # {}
  /\ hist.changed = {}
  /\ Len(all_bsu) >= cfg.max_bsu_count
  /\ fs.size - fs.used < smallest_bsu(all_bsu).size_bytes
  /\ Cardinality(Existing(vols)) = Len(all_bsu)

\* The steps of remove_bsu in the order of the code, and what follows the last one.
RmOrder == <<"rm_check", "rm_resize", "rm_lvreduce", "rm_pvmove", "rm_vgreduce",
             "rm_pvremove", "rm_lvextend", "rm_fsextend", "rm_detach", "rm_delete",
             "on_resume">>

IdealBytes ==
  Min2(Max2(CeilDiv(fs.used * 200, cfg.min_used_space_perc + cfg.max_used_space_perc),
            cfg.initial_size_gib * BytesPerGib),
       fs.size)

\* C22 as stated, for pvmove: vgreduce is issued only after pvmove has succeeded, that
\* is with no extent left on the volume's device.
C22_VgReduceAfterMoved == pc = "rm_vgreduce" => ~vols[rm.id].alloc

\* C22: remove_bsu takes its steps in the order fs resize, lvreduce, pvmove, vgreduce,
\* pvremove, LV extend, FS grow, detach, delete, each but vgreduce only after the one
\* before has succeeded (vgreduce follows pvmove whatever pvmove's exit status); the
\* filesystem and then the LV are brought to min(fs size - volume size, ideal size);
\* and from pvremove to the delete the volume's device is no PV of the VG and holds
\* no extent.
C22_RemoveInOrder ==
  /\ [][(InRemove(pc) /\ pc' # pc /\ pc' # "idle") =>
          \E k \in 1..(Len(RmOrder) - 1) : pc = RmOrder[k] /\ pc' = RmOrder[k + 1]]_vars
  /\ [][(pc = "rm_check" /\ pc' = "rm_resize") =>
          rm'.new_fs_size_bytes = Min2(fs.size - rm.size_bytes, IdealBytes)]_vars
  /\ [][(pc = "rm_resize" /\ pc' = "rm_lvreduce") =>
          fs'.size = rm.new_fs_size_bytes]_vars
  /\ [][(pc = "rm_lvreduce" /\ pc' = "rm_pvmove") =>
          lvm'.lv_size = rm.new_fs_size_bytes]_vars
  /\ [](pc \in {"rm_pvremove", "rm_lvextend", "rm_fsextend", "rm_detach", "rm_delete"} =>
          /\ ~vols[rm.id].alloc
          /\ vols[rm.id].pv # "vg")
  /\ [][(pc = "rm_detach" /\ pc' = "rm_delete") =>
          vols[rm.id].pv = "none" /\ fs.size = lvm.lv_size]_vars

\* A removal has gone through all its steps: the filesystem was shrunk, the volume was
\* detached and deleted, and the LV and the filesystem fill the VG that is left.
C22_Witness ==
  /\ pc = "on_resume"
  /\ hist.ev.op \in {"smallest", "largest"}
  /\ {"remove", "detach", "delete"} \subseteq hist.changed
  /\ Cardinality(Existing(vols)) = Len(hist.ev.before) - 1
  /\ VgPvs(vols) = Existing(vols)
  /\ fs.size = lvm.lv_size
  /\ \A i \in Existing(vols) : vols[i].vm = "this"

\* C23 as stated: a round of the attach loop leaves every owned volume attached to
\* this VM, those that were attached to another VM included.
C23_AttachesEveryMissing ==
  [][(pc = "on_attach" /\ pc' # "idle") =>
        \A i \in Existing(vols) : vols'[i].vm = "this"]_vars

\* C25 as stated: when reconcile_delete comes to delete_all_bsu, every volume of the
\* list it is about to ask the cloud to delete is attached to no VM.
C25_DeletesOnlyAvailable ==
  pc = "del_all" =>
     \A k \in 1..Len(all_bsu) : /\ vols[all_bsu[k].id].exists
                                /\ vols[all_bsu[k].id].vm = "none"

\* C31: remove_bsu runs only on a drive of at least two volumes, and the drive's last
\* volume goes away only in a reconcile towards the delete target.
C31_NeverRemovesLastVolume ==
  /\ [](InRemove(pc) => (bsu_count(all_bsu) >= 2 /\ Cardinality(Existing(vols)) >= 2))
  /\ [][(Existing(vols) # {} /\ Existing(vols') = {}) =>
          (pc = "del_all" /\ kind = "delete" /\ target = "delete")]_vars

\* The high-space step has run on a drive of one volume of the minimal size and has
\* returned without removing it.
C31_Witness ==
  /\ Returned("online")
  /\ cfg.max_bsu_count >= 2
  /\ bsu_count(all_bsu) = 1
  /\ Cardinality(Existing(vols)) = 1
  /\ is_drive_high_space_left(fs)
  /\ fs.mounted

----------------------------------------------------------------------------
(* Properties of the passes of reconcile_online (OnlineSpec) *)

\* The steps of one pass of the staircase, in the order of the code.
OnlineOrder ==
  <<"on_resume", "on_fetch", "on_attach", "on_bootstrap", "on_pvinit", "on_vgcreate",
    "on_vgextend", "on_lvcreate", "on_lvextend", "on_format", "on_mkdir", "on_mount",
    "on_fsextend", "on_cap", "on_low", "on_high", "rm_check", "rm_resize", "rm_lvreduce",
    "rm_pvmove", "rm_vgreduce", "rm_pvremove", "rm_lvextend", "rm_fsextend", "rm_detach",
    "rm_delete">>

InPass(p) == \E k \in 1..Len(OnlineOrder) : OnlineOrder[k] = p

Rank(p) == CHOOSE k \in 1..Len(OnlineOrder) : OnlineOrder[k] = p

\* C40: every pass of reconcile_online, the first of a tick and each one started again,
\* begins with the pvmove that has no argument: the tick enters the staircase there,
\* a step that goes back in the staircase goes there, the first cloud call is reached
\* from there only, and whatever pvmove's exit status the pass goes on to that call
\* with nothing changed.
C40_PassStartsWithPvMove ==
  /\ [][(pc = "idle" /\ pc' # "idle" /\ kind' = "online") => pc' = "on_resume"]_vars
  /\ [][(InPass(pc) /\ InPass(pc') /\ Rank(pc') < Rank(pc)) => pc' = "on_resume"]_vars
  /\ [][pc' = "on_fetch" => pc = "on_resume"]_vars
  /\ [][(pc = "on_resume" /\ faults' = faults)
          => (pc' = "on_fetch" /\ result' = result /\ World' = World)]_vars
  /\ [](InPass(pc) => kind = "online")

\* A pass started again after a creation has run its pvmove and is at its first
\* cloud call.
C40_Witness ==
  /\ pc = "on_fetch"
  /\ "create" \in hist.changed

----------------------------------------------------------------------------
(* Properties of the locks around a request (CallSpec) *)

\* C34: a worker whose HTTP request is in progress holds neither the limiter's mutex
\* nor a guard of the cloud configuration's lock.
C34_NoLockDuringRequest ==
  \A w \in Workers : wpc[w] = "request" => (lock # w /\ w \notin cloud_config)

----------------------------------------------------------------------------
(* Properties of the waits (WaitSpec) *)

\* C33: a provider error on a request makes the client operation return an error; the
\* operation does not send the request again.
C33_ErrorReturnsWithoutRetry ==
  [][poll'.errs > poll.errs => (poll'.pc = "returned" /\ poll'.result = "Err")]_vars

\* C35: a wait that returns Ok has had a response in which every volume asked for is
\* there with the desired state.
C35_OkOnlyWhenAllDesired ==
  (poll.pc = "returned" /\ poll.result = "Ok") =>
     \A i \in poll.ids : poll.last[i] = poll.desired

----------------------------------------------------------------------------
(* Properties of create_gib (CreateSpec) *)

TagFailed ==
  /\ poll.op = "create_gib"
  /\ poll.pc = "returned"
  /\ Len(poll.reqs) = 2

\* C36: create_gib sends the creation, then the tag request, then reads the volume
\* until it is available; when the tag request fails create_gib returns an error and
\* the created volume stays in the cloud, without the drive-name tag and out of
\* fetch_drive's list.
C36_TagFailureLeavesUntaggedVolume ==
  /\ [](poll.op = "create_gib" =>
          \A k \in 1..Len(poll.reqs) :
             poll.reqs[k] = IF k = 1 THEN "create" ELSE IF k = 2 THEN "tag" ELSE "read")
  /\ [](poll.op = "create_gib" /\ poll.result = "Ok" =>
          Len(poll.reqs) >= 3 /\ poll.last[poll.id] = "available")
  /\ [](TagFailed =>
          /\ poll.result = "Err"
          /\ poll.cloud[poll.id] \in {"creating", "available"}
          /\ poll.id \notin poll.tags
          /\ poll.id \notin fetch_drive_filter(poll))
  /\ [][TagFailed => /\ poll'.reqs = poll.reqs
                      /\ poll'.tags = poll.tags
                      /\ poll'.cloud[poll.id] # "absent"]_vars

\* The tag request has failed for a volume created next to a tagged one.
C36_Witness ==
  /\ TagFailed
  /\ poll.tags # {}
  /\ poll.cloud[poll.id] = "available"

----------------------------------------------------------------------------
(* Properties of the sizes asked for (ScaleSpec) *)

\* C37: create_larger_bsu asks for min(14901, ceil(largest * (1 + scale))) GiB and
\* create_smaller_bsu for max(initial_size_gib, ceil(smallest * (1 - scale))) GiB,
\* scale being disk_scale_factor_perc / 100; the size asked for is never above
\* 14901 GiB and never below initial_size_gib.
C37_ScaledSizes ==
  /\ calc.step = "larger" =>
       calc.bsu_size = Min2(MAX_BSU_SIZE_GIB,
                            CeilDiv(largest_bsu(all_bsu).size_gib
                                      * (100 + cfg.disk_scale_factor_perc), 100))
  /\ calc.step = "smaller" =>
       calc.bsu_size = Max2(cfg.initial_size_gib,
                            CeilDiv(smallest_bsu(all_bsu).size_gib
                                      * (100 - cfg.disk_scale_factor_perc), 100))
  /\ calc.step \in {"larger", "smaller"} =>
       /\ calc.bsu_size <= MAX_BSU_SIZE_GIB
       /\ calc.bsu_size >= cfg.initial_size_gib

----------------------------------------------------------------------------
(* Properties of the size comparisons (ExtendSpec) *)

AtLvExtend == pc = "on_lvextend"

AtFsExtend == pc = "on_fsextend"

FailsUnchanged == pc' = "idle" /\ result' = "Err" /\ World' = World

\* C38: at the LV-extend step vg_size < lv_size fails the tick and vg_size > lv_size
\* extends the LV to the VG's size; at the FS-extend step fs_size > lv_size fails the
\* tick and fs_size < lv_size grows the filesystem, the step being left only with
\* fs_size = lv_size.  A tick that fails changes nothing more.
C38_SizeInversionFails ==
  /\ [][/\ (AtLvExtend /\ get_vg_size_bytes(vols) < get_lv_size_bytes(lvm))
             => FailsUnchanged
        /\ (AtLvExtend /\ get_vg_size_bytes(vols) > get_lv_size_bytes(lvm))
             => (pc' = "on_format" /\ get_lv_size_bytes(lvm') = get_vg_size_bytes(vols))
        /\ (AtFsExtend /\ size_bytes(fs) > get_lv_size_bytes(lvm))
             => FailsUnchanged
        /\ (AtFsExtend /\ size_bytes(fs) < get_lv_size_bytes(lvm))
             => (pc' = "on_fsextend" /\ size_bytes(fs') = get_lv_size_bytes(lvm))
        /\ (pc = "idle" /\ result = "Err") => World' = World]_vars
  /\ [](pc = "on_cap" => size_bytes(fs) = get_lv_size_bytes(lvm))

\* The tick has failed at the FS-extend step, on a filesystem larger than the LV
\* which fits the VG.
C38_Witness ==
  /\ pc = "idle"
  /\ result = "Err"
  /\ fs.mounted
  /\ size_bytes(fs) > get_lv_size_bytes(lvm)
  /\ get_vg_size_bytes(vols) = get_lv_size_bytes(lvm)

----------------------------------------------------------------------------
(* Properties of the format test (FormatSpec) *)

\* C39: mkfs.btrfs runs only on a device whose first megabyte holds zero bytes only.
C39_FormatsOnlyZeroedDevice ==
  calc.step = "mkfs" => \A k \in 1..HeaderLen : calc.device[k] = 0

----------------------------------------------------------------------------
(* Properties of remove_bsu's sizes (ShrinkSpec) *)

\* C32: past the guard available >= volume size, the size given to the filesystem
\* resize and to lvreduce is at least the used bytes and at most the filesystem's size
\* minus the volume's size, and that subtraction does not go below zero.
C32_NewSizeBetweenUsedAndLargest ==
  calc.step = "sized" =>
     /\ calc.size >= calc.bsu_size
     /\ calc.new_fs_size_bytes <= calc.size - calc.bsu_size
     /\ calc.new_fs_size_bytes >= calc.used

----------------------------------------------------------------------------
(* Properties of the PV and VG steps (PvSpec) *)

\* C30: pvcreate runs only on the device of a volume of the drive that is neither a PV
\* of the drive's VG nor an unassigned PV; vgcreate and vgextend take only devices of
\* the drive's volumes that are unassigned PVs, never another drive's unassigned PV.
C30_OwnDevicesOnly ==
  /\ [][\A i \in VolIds : (vols[i].pv # "free" /\ vols'[i].pv = "free") =>
                              /\ i \in ListIds(all_bsu)
                              /\ vols[i].pv = "none"
                              /\ pc = "on_pvinit"]_vars
  /\ [][\A i \in VolIds : (vols[i].pv # "vg" /\ vols'[i].pv = "vg") =>
                              /\ i \in ListIds(all_bsu)
                              /\ vols[i].pv = "free"
                              /\ pc \in {"on_vgcreate", "on_vgextend"}]_vars
  /\ [](\A i \in VolIds \ ListIds(all_bsu) :
           \A w \in hist.world0 : vols[i].pv = w[1][i].pv)

\* The drive's volumes went from plain devices to PVs of its VG, past another drive's
\* plain device and another drive's unassigned PV, both left as they were.
C30_Witness ==
  /\ pc = "on_lvcreate"
  /\ \E w \in hist.world0 :
        /\ \E i \in ListIds(all_bsu) : w[1][i].pv = "none" /\ vols[i].pv = "vg"
        /\ \E i \in VolIds \ ListIds(all_bsu) : w[1][i].pv = "free" /\ vols[i].pv = "free"
        /\ \E i \in VolIds \ ListIds(all_bsu) : w[1][i].pv = "none" /\ vols[i].pv = "none"

\* C28: no two link requests in flight at the same time carry the same device name.
C28_DistinctDevicesInFlight ==
  \A i, j \in VolIds :
    (i # j /\ links.req[i] # 0 /\ links.req[j] # 0) => links.req[i] # links.req[j]

----------------------------------------------------------------------------
(* Properties of the detach calls (DetachSpec) *)

\* C24: a round of detach calls of the offline pipeline sends an unlink request only
\* for volumes attached to this VM, and leaves every volume that is unattached or
\* attached to another VM as it is.
C24_DetachOnlyFromThisVm ==
  [][pc = "off_detach" =>
       /\ \A i \in hist'.unlinked \ hist.unlinked : vols[i].exists /\ vols[i].vm = "this"
       /\ \A i \in VolIds : vols[i].vm # "this" => vols'[i] = vols[i]]_vars

\* A round has detached the volumes of this VM next to one held by another VM and an
\* unattached one, which got no request.
C24_Witness ==
  /\ hist.unlinked # {}
  /\ \A i \in hist.unlinked : vols[i].vm = "none"
  /\ \E i \in Existing(vols) \ hist.unlinked : vols[i].vm = "other"
  /\ \E i \in Existing(vols) \ hist.unlinked : vols[i].vm = "none"

----------------------------------------------------------------------------
(* Termination of reconcile_online (OnlineSpec) *)

\* C18 as stated: with the used bytes constant and every call succeeding, every
\* reconcile_online that has started returns.
C18_ReconcileReturns == (pc # "idle" /\ kind = "online") ~> (pc = "idle")

----------------------------------------------------------------------------
(* Properties of the drives sharing the host's LVM (ResumeSpec) *)

\* C29: an LVM command run by one drive's worker changes the LVM state of that drive
\* only, never that of another drive.
C29_CommandsActOnOwnDrive == host.last.on \subseteq {host.last.by}

----------------------------------------------------------------------------
(* Properties of Drive::run's loop (RunSpec) *)

\* C26: a reconcile that follows another one starts more than RECONCILE_COOLDOWN_S
\* seconds after last_reconcile, the instant taken when that one returned; a reconcile
\* that returns Ok or an error while the exit flag is down leaves the worker in its
\* loop, where it waits for the cooldown; and unless Stop is sent the worker then starts
\* another reconcile (as far as the clock of the model goes).
C26_CooldownThenRetry ==
  /\ [][(wk[1].pos = "cooldown" /\ wk'[1].pos = "reconcile" /\ wk[1].runs >= 1) =>
          now - wk[1].last_reconcile > RECONCILE_COOLDOWN_S * TicksPerSec]_vars
  /\ [][(wk[1].pos = "reconcile" /\ wk'[1].pos # "reconcile") =>
          /\ wk'[1].last_reconcile = now
          /\ wk'[1].pos = IF wk'[1].res = "Stop" THEN "exited" ELSE "cooldown"]_vars
  /\ [][wk'[1].pos = "exited" => wk'[1].exit /\ wk[1].sent]_vars
  /\ (/\ wk[1].pos = "cooldown"
      /\ wk[1].res = "Err"
      /\ wk[1].last_reconcile <= MaxClock - (RECONCILE_COOLDOWN_S + 2) * TicksPerSec)
        ~> (wk[1].pos = "reconcile" \/ wk[1].sent)

\* A reconcile has returned an error, the worker has waited and is in its next
\* reconcile, more than 30 s later, without Stop.
C26_Witness ==
  /\ wk[1].pos = "reconcile"
  /\ wk[1].res = "Err"
  /\ wk[1].runs >= 1
  /\ ~wk[1].sent
  /\ now - wk[1].last_reconcile > RECONCILE_COOLDOWN_S * TicksPerSec

----------------------------------------------------------------------------
(* Properties of the workers and of Drives::stop (WorkersSpec) *)

\* C27: a worker that has taken Stop from its channel has its exit flag set and is out
\* of its reconcile and of its loop at once; from then on the flag stays set, the
\* worker completes no command or cloud call and starts no reconcile.
C27_StopSeenExits ==
  /\ [](\A w \in Workers : (wk[w].sent /\ wk[w].chan = 0) =>
                               (wk[w].exit /\ wk[w].pos = "exited"))
  /\ [][\A w \in Workers : wk[w].exit => wk'[w] = wk[w]]_vars
  /\ [][\A w \in Workers : (~wk[w].exit /\ wk'[w].exit) =>
                               /\ wk[w].chan = 1
                               /\ wk'[w].since = wk[w].since
                               /\ wk'[w].pos = "exited"]_vars

\* Stop was seen by an early_exit() after one more call of the worker had completed.
C27_Witness ==
  \E w \in Workers :
    /\ wk[w].exit
    /\ wk[w].pos = "exited"
    /\ wk[w].sent
    /\ wk[w].since = 1
    /\ sup.pc = "join"

\* C14 as stated: once Stop has been sent to a worker, that worker completes at most
\* one more external command or cloud call before it returns.
C14_StopWithinOneCall ==
  \A w \in Workers : wk[w].since <= 1

DistinctNames == \A v, w \in Workers : wk[v].name = wk[w].name => v = w

\* When stop() joins, Stop has been sent on every worker's channel.
StopDelivered == sup.pc \in {"join", "done"} => \A w \in Workers : wk[w].sent

\* When stop() has returned, every worker has left Drive::run.
StopJoined == sup.pc = "done" => \A w \in Workers : wk[w].pos = "exited"

----------------------------------------------------------------------------
(* Property of the limiter (LimiterSpec) *)

\* C4 as stated: two consecutive cloud calls are at least API_LIMITER_S seconds apart.
C4_MinGap ==
  Len(calls) = 2 => calls[2] - calls[1] >= API_LIMITER_S * TicksPerSec

====
